---- MODULE Spec2Model ----
(***************************************************************************)
(* Mia Croft (src/mia-croft/game.js): the gameplay state machine of class  *)
(* MiaCroftGame.                                                           *)
(*                                                                         *)
(* Quantisation.  The world is projected on one horizontal axis; a         *)
(* position is an integer number of world units in 0..MaxPos.  The clock   *)
(* is read in units of 1/TimeScale second.  Frames are at least one clock  *)
(* unit apart, so the frame delta is the clamp of gameLoop (0.1 s) in      *)
(* every frame but the synchronous first one of startGame, whose delta is  *)
(* 0; `delta' below is 1 for a clamped frame and 0 for that first frame,   *)
(* and a speed is the distance covered in one clamped frame, on the grid   *)
(* of positions: 5 for a shot of the player, 2 for a bolt or a shard, 1    *)
(* for the player, the enemies and the boss.  Heights are not followed by  *)
(* Spec: distances are those along the axis, and the vertical motion of    *)
(* the player has a specification of its own, SpecPhys.                    *)
(***************************************************************************)
EXTENDS Integers, Sequences, FiniteSets, TLC

VARIABLES
    state,          \* this.state
    currentLevel,   \* this.currentLevel
    health,         \* this.health
    ammo,           \* this.ammo
    inventory,      \* this.inventory
    playerPos,      \* this.player.position, NoPos when this.player is null
    enemies,        \* this.enemies
    boss,           \* this.boss (position, userData.lastAttack) or NoBoss
    bossHealth,     \* this.bossHealth
    projectiles,    \* this.projectiles
    collectibles,   \* this.collectibles
    interactables,  \* this.interactables
    exitGate,       \* this.exitGate (its position) or NoPos
    gateOpen,       \* this.gateOpen
    puzzleSolved,   \* this.puzzleSolved
    lastShootTime,  \* this.lastShootTime
    pointerLocked,  \* this.pointerLocked
    menuVisible,    \* #menu is shown (the start button can be clicked)
    gameEndVisible, \* #game-end is shown (the restart button can be clicked)
    puzzleVisible,  \* #puzzle-ui is shown (rune and close buttons can be clicked)
    timers,         \* pending setTimeout callbacks that touch game state
    now,            \* this.clock elapsed time
    loopRunning,    \* a requestAnimationFrame(gameLoop) callback is pending
    pc,             \* position inside the running gameLoop frame, "idle" between events
    idx,            \* loop index i of updateProjectiles (1-based), 0 outside the loop
    delta,          \* delta of the running frame
    deadline,       \* clock time at which the model stops following the run
    platforms,      \* this.platforms
    keys,           \* this.keys
    playerPlace,    \* this.player.position.x and .z, as an index of Places
    playerY,        \* this.player.position.y
    playerVelocityY,\* this.playerVelocity.y
    playerOnGround  \* this.playerOnGround

vars == <<state, currentLevel, health, ammo, inventory, playerPos, enemies, boss,
          bossHealth, projectiles, collectibles, interactables, exitGate, gateOpen,
          puzzleSolved, lastShootTime, pointerLocked, menuVisible, gameEndVisible,
          puzzleVisible, timers, now, loopRunning, pc, idx, delta, deadline,
          platforms, keys, playerPlace, playerY, playerVelocityY, playerOnGround>>

\* The variables of the vertical motion of the player, which only SpecPhys follows.
phys == <<platforms, keys, playerPlace, playerY, playerVelocityY, playerOnGround>>

----------------------------------------------------------------------------
\* Bounds of the model.

\* Positions are 0..MaxPos.
MaxPos == 9
\* The clock is followed for MaxTime units from the initial state.
MaxTime == 4
\* Longest time between two frames, in clock units.
MaxDt == 1
\* Most setTimeout callbacks pending at once.
MaxTimers == 2
\* Most projectiles of the player in flight when the player may shoot again.
MaxShots == 1

\* Clock units per second.
TimeScale == 2

\* null in an inventory slot
Null == "null"
\* this.player, this.exitGate: the position of a null object
NoPos == 0 - 1
\* userData.lastAttack before the first attack (undefined)
Undefined == 0 - 1
\* this.boss = null
NoBoss == [present |-> FALSE, pos |-> NoPos, lastAttack |-> Undefined]

----------------------------------------------------------------------------
\* Program constants.

maxHealth == 100
maxAmmo == 30
maxLevels == 3
bossMaxHealth == 100

MENU == "menu"
PLAYING == "playing"
PUZZLE == "puzzle"
GAME_OVER == "game_over"
VICTORY == "victory"

\* shootCooldown = 0.25 s, as the divisor of a second
shootCooldownDiv == 4
\* setTimeout(() => this.nextLevel(), 2000)
gateTimeout == 2 * TimeScale
\* setTimeout(() => { this.closePuzzle(); ... }, 1000)
puzzleTimeout == 1 * TimeScale

----------------------------------------------------------------------------
\* Vector helpers, on the one axis of the model.

Abs(x) == IF x < 0 THEN -x ELSE x

\* a.distanceTo(b)
Dist(a, b) == Abs(a - b)

\* subVectors(a, b).normalize(): the unit vector from b to a (0 when a = b)
Direction(a, b) == IF a > b THEN 1 ELSE IF a < b THEN -1 ELSE 0

Min(a, b) == IF a < b THEN a ELSE b
Max(a, b) == IF a > b THEN a ELSE b

\* A player position stays inside the modelled stretch of the world.
ClampPos(x) == Max(0, Min(MaxPos, x))

\* A projectile that left the modelled stretch by more than every hit radius can
\* hit nothing any more: its position is kept at that distance.
ClampProj(x) == Max(0 - 4, Min(MaxPos + 4, x))

\* array.splice(i, 1) with a 1-based i: nothing is removed past the end
Splice(s, i) ==
    IF i >= 1 /\ i <= Len(s)
    THEN SubSeq(s, 1, i - 1) \o SubSeq(s, i + 1, Len(s))
    ELSE s

----------------------------------------------------------------------------
\* The game object as one record, for the handlers that run in sequence.

Game ==
    [state |-> state, currentLevel |-> currentLevel, health |-> health, ammo |-> ammo,
     inventory |-> inventory, playerPos |-> playerPos, enemies |-> enemies, boss |-> boss,
     bossHealth |-> bossHealth, projectiles |-> projectiles, collectibles |-> collectibles,
     interactables |-> interactables, exitGate |-> exitGate, gateOpen |-> gateOpen,
     puzzleSolved |-> puzzleSolved, lastShootTime |-> lastShootTime,
     pointerLocked |-> pointerLocked, menuVisible |-> menuVisible,
     gameEndVisible |-> gameEndVisible, puzzleVisible |-> puzzleVisible, timers |-> timers]

Commit(g) ==
    /\ state' = g.state
    /\ currentLevel' = g.currentLevel
    /\ health' = g.health
    /\ ammo' = g.ammo
    /\ inventory' = g.inventory
    /\ playerPos' = g.playerPos
    /\ enemies' = g.enemies
    /\ boss' = g.boss
    /\ bossHealth' = g.bossHealth
    /\ projectiles' = g.projectiles
    /\ collectibles' = g.collectibles
    /\ interactables' = g.interactables
    /\ exitGate' = g.exitGate
    /\ gateOpen' = g.gateOpen
    /\ puzzleSolved' = g.puzzleSolved
    /\ lastShootTime' = g.lastShootTime
    /\ pointerLocked' = g.pointerLocked
    /\ menuVisible' = g.menuVisible
    /\ gameEndVisible' = g.gameEndVisible
    /\ puzzleVisible' = g.puzzleVisible
    /\ timers' = g.timers

\* setTimeout(callback, ms) at clock time t
setTimeout(g, t, callback, ms) ==
    [g EXCEPT !.timers = Append(@, [due |-> t + ms, callback |-> callback])]

----------------------------------------------------------------------------
\* Level creation.

createCollectible(x, type) == [type |-> type, pos |-> x]

createSnowWolf(x) ==
    [type |-> "wolf", pos |-> x, health |-> 30, maxHealth |-> 30, speed |-> 1,
     damage |-> 10, attackRange |-> 2, aggroRange |-> 15,
     lastAttack |-> Undefined, lastShot |-> Undefined]

createIceSpirit(x) ==
    [type |-> "spirit", pos |-> x, health |-> 20, maxHealth |-> 20, speed |-> 1,
     damage |-> 15, attackRange |-> 8, aggroRange |-> 20,
     lastAttack |-> Undefined, lastShot |-> 0]

createExitGate(g, x) ==
    [g EXCEPT !.exitGate = x,
              !.interactables = Append(@, [pos |-> x, radius |-> 3, type |-> "gate"])]

createPuzzleAltar(g, x) ==
    [g EXCEPT !.interactables = Append(@, [pos |-> x, radius |-> 3, type |-> "puzzle"])]

createBoss(g) ==
    [g EXCEPT !.boss = [present |-> TRUE, pos |-> 9, lastAttack |-> Undefined],
              !.bossHealth = bossMaxHealth]

\* The levels keep one collectible of each kind they hold, in the order of creation,
\* and at most two enemies.
\* Level 1 along its x axis: key area and its wolf at the low end, the exit gate at
\* the high end, the player between them.
createLevel1(g) ==
    createExitGate(
        [g EXCEPT !.playerPos = 4,
                  !.collectibles = <<createCollectible(8, "health"),
                                     createCollectible(2, "key")>>,
                  !.enemies = <<createSnowWolf(0), createSnowWolf(7)>>],
        9)

\* Level 2 along its z axis: the player at the near end, the altar in the temple,
\* the exit gate at the far end.
createLevel2(g) ==
    createExitGate(
        createPuzzleAltar(
            [g EXCEPT !.playerPos = 0,
                      !.collectibles = <<createCollectible(3, "ammo")>>,
                      !.enemies = <<createIceSpirit(7)>>],
            1),
        5)

\* Level 3 along its z axis: the player at one end of the arena, the boss at the other.
createLevel3(g) ==
    createBoss(
        [g EXCEPT !.playerPos = 0,
                  !.collectibles = <<createCollectible(5, "health")>>])

\* Faulty variant of clearLevel: the enemy registry survives the unload.
clearLevelKeepsEnemies(g) ==
    [g EXCEPT !.collectibles = <<>>, !.interactables = <<>>,
              !.projectiles = <<>>, !.playerPos = NoPos, !.boss = NoBoss,
              !.exitGate = NoPos]

clearLevel(g) ==
    [g EXCEPT !.collectibles = <<>>, !.enemies = <<>>, !.interactables = <<>>,
              !.projectiles = <<>>, !.playerPos = NoPos, !.boss = NoBoss,
              !.exitGate = NoPos]

\* Faulty variant of loadLevel: the gate and puzzle flags survive the load.
loadLevelKeepsFlags(g, levelNum) ==
    LET c == [clearLevel(g) EXCEPT !.playerPos = 0]
    IN  CASE levelNum = 1 -> createLevel1(c)
          [] levelNum = 2 -> createLevel2(c)
          [] levelNum = 3 -> createLevel3(c)
          [] OTHER -> c

loadLevel(g, levelNum) ==
    LET c == [clearLevel(g) EXCEPT !.puzzleSolved = FALSE, !.gateOpen = FALSE,
                                   !.playerPos = 0]
    IN  CASE levelNum = 1 -> createLevel1(c)
          [] levelNum = 2 -> createLevel2(c)
          [] levelNum = 3 -> createLevel3(c)
          [] OTHER -> c

----------------------------------------------------------------------------
\* Game mechanics.

gameOver(g) ==
    [g EXCEPT !.state = GAME_OVER, !.pointerLocked = FALSE, !.gameEndVisible = TRUE]

victory(g) ==
    [g EXCEPT !.state = VICTORY, !.pointerLocked = FALSE, !.gameEndVisible = TRUE]

takeDamage(g, amount) ==
    LET d == [g EXCEPT !.health = @ - amount]
    IN  IF d.health <= 0 THEN gameOver(d) ELSE d

nextLevel(g) ==
    LET n == [g EXCEPT !.currentLevel = @ + 1]
    IN  IF n.currentLevel > maxLevels THEN victory(n) ELSE loadLevel(n, n.currentLevel)

resetPlayer(g) == [g EXCEPT !.health = maxHealth]

\* inventory.findIndex(item => item && item.type === 'key'), 1-based, 0 for -1
keyIndex(inv) ==
    IF \E k \in 1..Len(inv) : inv[k] = "key"
    THEN CHOOSE k \in 1..Len(inv) : inv[k] = "key" /\ \A j \in 1..(k - 1) : inv[j] # "key"
    ELSE 0

openGateAnimation(g, t) ==
    IF g.exitGate # NoPos THEN setTimeout(g, t, "nextLevel", gateTimeout) ELSE g

\* Faulty variant of tryOpenGate: the key stays in the inventory.
tryOpenGateKeepsKey(g, t) ==
    IF g.currentLevel = 1
    THEN IF \E k \in 1..Len(g.inventory) : g.inventory[k] = "key"
         THEN openGateAnimation([g EXCEPT !.gateOpen = TRUE], t)
         ELSE g
    ELSE IF g.currentLevel = 2
         THEN IF g.puzzleSolved
              THEN openGateAnimation([g EXCEPT !.gateOpen = TRUE], t)
              ELSE g
         ELSE g

\* Faulty variant of tryOpenGate: the level-2 gate does not ask for the puzzle.
tryOpenGateIgnoresPuzzle(g, t) ==
    IF g.currentLevel = 1
    THEN IF \E k \in 1..Len(g.inventory) : g.inventory[k] = "key"
         THEN LET o == openGateAnimation([g EXCEPT !.gateOpen = TRUE], t)
              IN  IF keyIndex(o.inventory) # 0
                  THEN [o EXCEPT !.inventory[keyIndex(o.inventory)] = Null]
                  ELSE o
         ELSE g
    ELSE IF g.currentLevel = 2
         THEN openGateAnimation([g EXCEPT !.gateOpen = TRUE], t)
         ELSE g

\* Faulty variant of tryOpenGate: without a key the level-1 gate still starts its
\* animation and the transition callback.
tryOpenGateAnimatesAnyway(g, t) ==
    IF g.currentLevel = 1
    THEN IF \E k \in 1..Len(g.inventory) : g.inventory[k] = "key"
         THEN LET o == openGateAnimation([g EXCEPT !.gateOpen = TRUE], t)
              IN  IF keyIndex(o.inventory) # 0
                  THEN [o EXCEPT !.inventory[keyIndex(o.inventory)] = Null]
                  ELSE o
         ELSE openGateAnimation(g, t)
    ELSE IF g.currentLevel = 2
         THEN IF g.puzzleSolved
              THEN openGateAnimation([g EXCEPT !.gateOpen = TRUE], t)
              ELSE g
         ELSE g

\* Faulty variant of tryOpenGate: every level after the first takes the puzzle branch.
tryOpenGateFromLevel2(g, t) ==
    IF g.currentLevel = 1
    THEN IF \E k \in 1..Len(g.inventory) : g.inventory[k] = "key"
         THEN LET o == openGateAnimation([g EXCEPT !.gateOpen = TRUE], t)
              IN  IF keyIndex(o.inventory) # 0
                  THEN [o EXCEPT !.inventory[keyIndex(o.inventory)] = Null]
                  ELSE o
         ELSE g
    ELSE IF g.puzzleSolved
         THEN openGateAnimation([g EXCEPT !.gateOpen = TRUE], t)
         ELSE g

tryOpenGate(g, t) ==
    IF g.currentLevel = 1
    THEN IF \E k \in 1..Len(g.inventory) : g.inventory[k] = "key"
         THEN LET o == openGateAnimation([g EXCEPT !.gateOpen = TRUE], t)
              IN  IF keyIndex(o.inventory) # 0
                  THEN [o EXCEPT !.inventory[keyIndex(o.inventory)] = Null]
                  ELSE o
         ELSE g
    ELSE IF g.currentLevel = 2
         THEN IF g.puzzleSolved
              THEN openGateAnimation([g EXCEPT !.gateOpen = TRUE], t)
              ELSE g
         ELSE g

openPuzzle(g) ==
    IF g.puzzleSolved
    THEN g
    ELSE [g EXCEPT !.state = PUZZLE, !.pointerLocked = FALSE, !.puzzleVisible = TRUE]

closePuzzle(g) ==
    [g EXCEPT !.puzzleVisible = FALSE, !.state = PLAYING, !.pointerLocked = TRUE]

\* 1-based index of the first interactable in range, 0 when none is
firstInRange(g) ==
    LET hit == {k \in 1..Len(g.interactables) :
                   Dist(g.playerPos, g.interactables[k].pos) < g.interactables[k].radius}
    IN  IF hit = {} THEN 0 ELSE CHOOSE k \in hit : \A j \in hit : k <= j

\* Faulty variant of tryInteract: the last interactable in range acts, not the first.
tryInteractLast(g, t) ==
    LET hit == {k \in 1..Len(g.interactables) :
                   Dist(g.playerPos, g.interactables[k].pos) < g.interactables[k].radius}
        k == IF hit = {} THEN 0 ELSE CHOOSE j \in hit : \A h \in hit : h <= j
    IN  IF k = 0 THEN g
        ELSE IF g.interactables[k].type = "gate" THEN tryOpenGate(g, t)
        ELSE openPuzzle(g)

tryInteract(g, t) ==
    LET k == firstInRange(g)
    IN  IF k = 0 THEN g
        ELSE IF g.interactables[k].type = "gate" THEN tryOpenGate(g, t)
        ELSE openPuzzle(g)

\* firstFree: index of the first empty inventory slot, 0 when the inventory is full
firstFree(inv) ==
    IF \E k \in 1..Len(inv) : inv[k] = Null
    THEN CHOOSE k \in 1..Len(inv) : inv[k] = Null /\ \A j \in 1..(k - 1) : inv[j] # Null
    ELSE 0

\* Faulty variant of collectItem: an ammo pickup adds 10 rounds without the cap.
collectItemNoCap(g, k) ==
    LET type == g.collectibles[k].type
        e == CASE type = "health" -> [g EXCEPT !.health = Min(@ + 25, maxHealth)]
               [] type = "ammo" -> [g EXCEPT !.ammo = @ + 10]
               [] type = "key" ->
                    IF firstFree(g.inventory) # 0
                    THEN [g EXCEPT !.inventory[firstFree(g.inventory)] = "key"]
                    ELSE g
               [] OTHER -> g
    IN  [e EXCEPT !.collectibles = Splice(@, k)]

\* Faulty variant of collectItem: a key that finds no free slot gets a slot of its own.
collectItemGrows(g, k) ==
    LET type == g.collectibles[k].type
        e == CASE type = "health" -> [g EXCEPT !.health = Min(@ + 25, maxHealth)]
               [] type = "ammo" -> [g EXCEPT !.ammo = Min(@ + 10, maxAmmo)]
               [] type = "key" ->
                    IF firstFree(g.inventory) # 0
                    THEN [g EXCEPT !.inventory[firstFree(g.inventory)] = "key"]
                    ELSE [g EXCEPT !.inventory = Append(@, "key")]
               [] OTHER -> g
    IN  [e EXCEPT !.collectibles = Splice(@, k)]

\* Faulty variant of collectItem: the collectible stays in the registry.
collectItemStays(g, k) ==
    LET type == g.collectibles[k].type
    IN  CASE type = "health" -> [g EXCEPT !.health = Min(@ + 25, maxHealth)]
          [] type = "ammo" -> [g EXCEPT !.ammo = Min(@ + 10, maxAmmo)]
          [] type = "key" ->
               IF firstFree(g.inventory) # 0
               THEN [g EXCEPT !.inventory[firstFree(g.inventory)] = "key"]
               ELSE g
          [] OTHER -> g

\* collectItem(this.collectibles[k])
collectItem(g, k) ==
    LET type == g.collectibles[k].type
        e == CASE type = "health" -> [g EXCEPT !.health = Min(@ + 25, maxHealth)]
               [] type = "ammo" -> [g EXCEPT !.ammo = Min(@ + 10, maxAmmo)]
               [] type = "key" ->
                    IF firstFree(g.inventory) # 0
                    THEN [g EXCEPT !.inventory[firstFree(g.inventory)] = "key"]
                    ELSE g
               [] OTHER -> g
    IN  [e EXCEPT !.collectibles = Splice(@, k)]

\* Faulty variant of shoot: no test of the ammunition count.
shootNoAmmoCheck(g, t, dir) ==
    IF (t - g.lastShootTime) * shootCooldownDiv < TimeScale THEN g
    ELSE [g EXCEPT !.lastShootTime = t,
                   !.ammo = @ - 1,
                   !.projectiles = Append(@,
                       [pos |-> g.playerPos, velocity |-> dir * 5,
                        isPlayerProjectile |-> TRUE, isEnemyProjectile |-> FALSE,
                        damage |-> 10, lifetime |-> 2 * TimeScale, spawnTime |-> t])]

\* Faulty variant of shoot: no test of the cooldown.
shootNoCooldown(g, t, dir) ==
    IF g.ammo <= 0 THEN g
    ELSE [g EXCEPT !.lastShootTime = t,
                   !.ammo = @ - 1,
                   !.projectiles = Append(@,
                       [pos |-> g.playerPos, velocity |-> dir * 5,
                        isPlayerProjectile |-> TRUE, isEnemyProjectile |-> FALSE,
                        damage |-> 10, lifetime |-> 2 * TimeScale, spawnTime |-> t])]

\* shoot() at clock time t, the camera looking along dir
shoot(g, t, dir) ==
    IF (t - g.lastShootTime) * shootCooldownDiv < TimeScale THEN g
    ELSE IF g.ammo <= 0 THEN g
    ELSE [g EXCEPT !.lastShootTime = t,
                   !.ammo = @ - 1,
                   !.projectiles = Append(@,
                       [pos |-> g.playerPos, velocity |-> dir * 5,
                        isPlayerProjectile |-> TRUE, isEnemyProjectile |-> FALSE,
                        damage |-> 10, lifetime |-> 2 * TimeScale, spawnTime |-> t])]

----------------------------------------------------------------------------
\* The update loop.

\* updatePlayer(delta): move is the held movement keys seen through the camera yaw
updatePlayer(g, move, d) ==
    IF g.playerPos = NoPos THEN g
    ELSE [g EXCEPT !.playerPos = ClampPos(@ + move * d)]

enemyShoot(g, enemy, direction, t) ==
    [g EXCEPT !.projectiles = Append(@,
        [pos |-> enemy.pos, velocity |-> direction * 2,
         isPlayerProjectile |-> FALSE, isEnemyProjectile |-> TRUE,
         damage |-> enemy.damage, lifetime |-> 3 * TimeScale, spawnTime |-> t])]

\* Faulty variant of enemyActs: the enemy pursues and attacks whatever the distance,
\* without the aggro range.
enemyActsNoAggro(g, k, t, d) ==
    LET enemy == g.enemies[k]
        dist == Dist(g.playerPos, enemy.pos)
        direction == Direction(g.playerPos, enemy.pos)
        m == IF dist > enemy.attackRange
             THEN [g EXCEPT !.enemies[k].pos = @ + direction * enemy.speed * d]
             ELSE g
    IN  IF ~(dist < enemy.attackRange) THEN m
        ELSE IF enemy.type = "spirit"
             THEN IF t - enemy.lastShot > 2 * TimeScale
                  THEN [enemyShoot(m, enemy, direction, t) EXCEPT !.enemies[k].lastShot = t]
                  ELSE m
        ELSE IF enemy.type = "wolf"
             THEN IF enemy.lastAttack = Undefined \/ enemy.lastAttack = 0
                     \/ t - enemy.lastAttack > 1 * TimeScale
                  THEN [takeDamage(m, enemy.damage) EXCEPT !.enemies[k].lastAttack = t]
                  ELSE m
        ELSE m

\* Faulty variant of enemyActs: both cooldowns are half a second shorter.
enemyActsShortCooldown(g, k, t, d) ==
    LET enemy == g.enemies[k]
        dist == Dist(g.playerPos, enemy.pos)
        direction == Direction(g.playerPos, enemy.pos)
        m == IF dist > enemy.attackRange
             THEN [g EXCEPT !.enemies[k].pos = @ + direction * enemy.speed * d]
             ELSE g
    IN  IF ~(dist < enemy.aggroRange) THEN g
        ELSE IF ~(dist < enemy.attackRange) THEN m
        ELSE IF enemy.type = "spirit"
             THEN IF t - enemy.lastShot > 2 * TimeScale - 1
                  THEN [enemyShoot(m, enemy, direction, t) EXCEPT !.enemies[k].lastShot = t]
                  ELSE m
        ELSE IF enemy.type = "wolf"
             THEN IF enemy.lastAttack = Undefined \/ enemy.lastAttack = 0
                     \/ t - enemy.lastAttack > 1 * TimeScale - 1
                  THEN [takeDamage(m, enemy.damage) EXCEPT !.enemies[k].lastAttack = t]
                  ELSE m
        ELSE m

\* The pass of the loop of updateEnemies for this.enemies[k], after the dead check:
\* aggro, movement and attack
enemyActs(g, k, t, d) ==
    LET enemy == g.enemies[k]
        dist == Dist(g.playerPos, enemy.pos)
        direction == Direction(g.playerPos, enemy.pos)
        m == IF dist > enemy.attackRange
             THEN [g EXCEPT !.enemies[k].pos = @ + direction * enemy.speed * d]
             ELSE g
    IN  IF ~(dist < enemy.aggroRange) THEN g
        ELSE IF ~(dist < enemy.attackRange) THEN m
        ELSE IF enemy.type = "spirit"
             THEN IF t - enemy.lastShot > 2 * TimeScale
                  THEN [enemyShoot(m, enemy, direction, t) EXCEPT !.enemies[k].lastShot = t]
                  ELSE m
        ELSE IF enemy.type = "wolf"
             THEN IF enemy.lastAttack = Undefined \/ enemy.lastAttack = 0
                     \/ t - enemy.lastAttack > 1 * TimeScale
                  THEN [takeDamage(m, enemy.damage) EXCEPT !.enemies[k].lastAttack = t]
                  ELSE m
        ELSE m

\* Faulty variant of updateEnemy: an enemy is dead only below 0 health.
updateEnemyKeepsZero(g, k, t, d) ==
    IF g.enemies[k].health < 0 THEN [g EXCEPT !.enemies = Splice(@, k)]
    ELSE enemyActs(g, k, t, d)

\* Faulty variant of updateEnemy: the dead check comes after the enemy has acted.
updateEnemyActsFirst(g, k, t, d) ==
    IF g.enemies[k].health <= 0
    THEN [enemyActs(g, k, t, d) EXCEPT !.enemies = Splice(@, k)]
    ELSE enemyActs(g, k, t, d)

\* One pass of the loop of updateEnemies, for this.enemies[k]
updateEnemy(g, k, t, d) ==
    IF g.enemies[k].health <= 0 THEN [g EXCEPT !.enemies = Splice(@, k)]
    ELSE enemyActs(g, k, t, d)

RECURSIVE enemiesFrom(_, _, _, _)
enemiesFrom(g, k, t, d) ==
    IF k = 0 THEN g ELSE enemiesFrom(updateEnemy(g, k, t, d), k - 1, t, d)

\* updateEnemies(delta): from the last enemy to the first
updateEnemies(g, t, d) == enemiesFrom(g, Len(g.enemies), t, d)

bossGroundSlam(g) ==
    IF Dist(g.playerPos, g.boss.pos) < 8 THEN takeDamage(g, 20) ELSE g

\* Faulty variant of bossIceAttack: two shards instead of three.
bossIceAttackTwoShards(g, direction, t) ==
    LET shard == [pos |-> g.boss.pos, velocity |-> direction * 2,
                  isPlayerProjectile |-> FALSE, isEnemyProjectile |-> TRUE,
                  damage |-> 15, lifetime |-> 3 * TimeScale, spawnTime |-> t]
    IN  [g EXCEPT !.projectiles = @ \o <<shard, shard>>]

bossIceAttack(g, direction, t) ==
    LET shard == [pos |-> g.boss.pos, velocity |-> direction * 2,
                  isPlayerProjectile |-> FALSE, isEnemyProjectile |-> TRUE,
                  damage |-> 15, lifetime |-> 3 * TimeScale, spawnTime |-> t]
    IN  [g EXCEPT !.projectiles = @ \o <<shard, shard, shard>>]

\* Faulty variant of attackCooldown: exactly half health still takes the long cooldown.
attackCooldownHalfIsLong(g) ==
    IF 2 * g.bossHealth >= bossMaxHealth THEN 2 * TimeScale ELSE 1 * TimeScale

\* healthPercent > 0.5 ? 2 : 1
attackCooldown(g) ==
    IF 2 * g.bossHealth > bossMaxHealth THEN 2 * TimeScale ELSE 1 * TimeScale

updateBoss(g, t, d) ==
    IF ~g.boss.present \/ g.currentLevel # 3 THEN g
    ELSE IF g.bossHealth <= 0 THEN victory([g EXCEPT !.boss = NoBoss])
    ELSE LET direction == Direction(g.playerPos, g.boss.pos)
             dist == Dist(g.playerPos, g.boss.pos)
             m == IF dist > 8 THEN [g EXCEPT !.boss.pos = @ + direction * d] ELSE g
             a == IF m.boss.lastAttack = Undefined THEN [m EXCEPT !.boss.lastAttack = 0] ELSE m
         IN  IF t - a.boss.lastAttack > attackCooldown(g)
             THEN [(IF dist < 5 THEN bossGroundSlam(a) ELSE bossIceAttack(a, direction, t))
                      EXCEPT !.boss.lastAttack = t]
             ELSE a

\* 1-based index of the first enemy within 1.5 of position x, 0 when there is none
firstEnemyHit(g, x) ==
    LET hit == {j \in 1..Len(g.enemies) : 2 * Dist(x, g.enemies[j].pos) < 3}
    IN  IF hit = {} THEN 0 ELSE CHOOSE j \in hit : \A h \in hit : j <= h

\* updateProjectiles, "Player projectile hits", for the projectile proj at index k
playerProjectileHits(g, k, proj) ==
    LET j == firstEnemyHit(g, proj.pos)
        e == IF j = 0 THEN g
             ELSE [g EXCEPT !.enemies[j].health = @ - proj.damage,
                            !.projectiles = Splice(@, k)]
    IN  IF e.boss.present /\ Dist(proj.pos, e.boss.pos) < 3
        THEN [e EXCEPT !.bossHealth = @ - proj.damage, !.projectiles = Splice(@, k)]
        ELSE e

\* Faulty variant of updateProjectile: a projectile that hits the player is removed
\* with splice(i), which removes every projectile from index i on.
updateProjectileSpliceRest(g, k, t, d) ==
    LET proj == [g.projectiles[k] EXCEPT !.pos = ClampProj(@ + g.projectiles[k].velocity * d)]
        m == [g EXCEPT !.projectiles[k] = proj]
        e == IF proj.isPlayerProjectile THEN playerProjectileHits(m, k, proj) ELSE m
    IN  IF t - proj.spawnTime > proj.lifetime THEN [m EXCEPT !.projectiles = Splice(@, k)]
        ELSE IF proj.isEnemyProjectile /\ Dist(proj.pos, e.playerPos) < 1
             THEN [takeDamage(e, proj.damage) EXCEPT !.projectiles = SubSeq(@, 1, k - 1)]
             ELSE e

\* Faulty variant of updateProjectile: a projectile expires when its age reaches its
\* lifetime, not when it exceeds it.
updateProjectileExpiresEarly(g, k, t, d) ==
    LET proj == [g.projectiles[k] EXCEPT !.pos = ClampProj(@ + g.projectiles[k].velocity * d)]
        m == [g EXCEPT !.projectiles[k] = proj]
        e == IF proj.isPlayerProjectile THEN playerProjectileHits(m, k, proj) ELSE m
    IN  IF t - proj.spawnTime >= proj.lifetime THEN [m EXCEPT !.projectiles = Splice(@, k)]
        ELSE IF proj.isEnemyProjectile /\ Dist(proj.pos, e.playerPos) < 1
             THEN [takeDamage(e, proj.damage) EXCEPT !.projectiles = Splice(@, k)]
             ELSE e

\* Faulty variant of updateProjectile: the test against the player does not ask for
\* the owner tag.
updateProjectileIgnoresOwner(g, k, t, d) ==
    LET proj == [g.projectiles[k] EXCEPT !.pos = ClampProj(@ + g.projectiles[k].velocity * d)]
        m == [g EXCEPT !.projectiles[k] = proj]
        e == IF proj.isPlayerProjectile THEN playerProjectileHits(m, k, proj) ELSE m
    IN  IF t - proj.spawnTime > proj.lifetime THEN [m EXCEPT !.projectiles = Splice(@, k)]
        ELSE IF Dist(proj.pos, e.playerPos) < 1 /\ k <= Len(e.projectiles)
             THEN [takeDamage(e, proj.damage) EXCEPT !.projectiles = Splice(@, k)]
             ELSE e

\* One pass of the loop of updateProjectiles, for this.projectiles[k]
updateProjectile(g, k, t, d) ==
    LET proj == [g.projectiles[k] EXCEPT !.pos = ClampProj(@ + g.projectiles[k].velocity * d)]
        m == [g EXCEPT !.projectiles[k] = proj]
        e == IF proj.isPlayerProjectile THEN playerProjectileHits(m, k, proj) ELSE m
    IN  IF t - proj.spawnTime > proj.lifetime THEN [m EXCEPT !.projectiles = Splice(@, k)]
        ELSE IF proj.isEnemyProjectile /\ Dist(proj.pos, e.playerPos) < 1
             THEN [takeDamage(e, proj.damage) EXCEPT !.projectiles = Splice(@, k)]
             ELSE e

RECURSIVE collectiblesFrom(_, _)
collectiblesFrom(g, k) ==
    IF k = 0 THEN g
    ELSE collectiblesFrom(
             IF 2 * Dist(g.playerPos, g.collectibles[k].pos) < 3 THEN collectItem(g, k) ELSE g,
             k - 1)

\* updateCollectibles(): from the last collectible to the first
updateCollectibles(g) == collectiblesFrom(g, Len(g.collectibles))

\* Faulty variant of checkLevelCompletion: the gate need not be open.
checkLevelCompletionAnyGate(g) ==
    IF g.exitGate = NoPos THEN g
    ELSE IF Dist(g.playerPos, g.exitGate) < 3 THEN nextLevel(g)
    ELSE g

checkLevelCompletion(g) ==
    IF g.exitGate = NoPos \/ ~g.gateOpen THEN g
    ELSE IF Dist(g.playerPos, g.exitGate) < 3 THEN nextLevel(g)
    ELSE g

RECURSIVE projectilesFrom(_, _, _, _)
projectilesFrom(g, k, t, d) ==
    IF k = 0 THEN g ELSE projectilesFrom(updateProjectile(g, k, t, d), k - 1, t, d)

\* updateProjectiles(delta): from the last projectile to the first
updateProjectiles(g, t, d) == projectilesFrom(g, Len(g.projectiles), t, d)

\* The updates of one gameLoop frame in the PLAYING state, at clock time t
frame(g, move, t, d) ==
    checkLevelCompletion(
        updateCollectibles(
            updateProjectiles(
                updateBoss(updateEnemies(updatePlayer(g, move, d), t, d), t, d),
                t, d)))

startGame(g) ==
    loadLevel(
        resetPlayer([g EXCEPT !.menuVisible = FALSE, !.pointerLocked = TRUE,
                              !.state = PLAYING, !.currentLevel = 1]),
        1)

restartGame(g) ==
    loadLevel(
        resetPlayer([g EXCEPT !.gameEndVisible = FALSE, !.health = maxHealth,
                              !.ammo = maxAmmo, !.inventory = <<Null, Null, Null>>,
                              !.currentLevel = 1, !.state = PLAYING]),
        1)

----------------------------------------------------------------------------
\* Initial states.

\* The object after the constructor.
Constructed ==
    [state |-> MENU, currentLevel |-> 1, health |-> 100, ammo |-> 30,
     inventory |-> <<Null, Null, Null>>, playerPos |-> NoPos, enemies |-> <<>>,
     boss |-> NoBoss, bossHealth |-> 100, projectiles |-> <<>>, collectibles |-> <<>>,
     interactables |-> <<>>, exitGate |-> NoPos, gateOpen |-> FALSE,
     puzzleSolved |-> FALSE, lastShootTime |-> 0, pointerLocked |-> FALSE,
     menuVisible |-> TRUE, gameEndVisible |-> FALSE, puzzleVisible |-> FALSE,
     timers |-> <<>>]

\* Clock time at which the mid-game initial states start: later than the first
\* cooldown of the boss and of the spirits, as every load of level 2 or 3 is.
LoadTime == 2 * TimeScale + 1

\* The object right after nextLevel loaded levelNum, the player having h health left
\* and no callback pending (the level before was left through its transition callback).
Loaded(levelNum, h) ==
    loadLevel([startGame(Constructed) EXCEPT !.currentLevel = levelNum, !.health = h],
              levelNum)

\* The object n frames after g at clock time t, the movement keys held as move;
\* gameLoop runs the updates of a frame in the PLAYING state only.
RECURSIVE walk(_, _, _, _)
walk(g, t, move, n) ==
    IF n = 0 \/ g.state # PLAYING THEN g
    ELSE walk(frame(g, move, t + 1, 1), t + 1, move, n - 1)

\* The object n frames after g at clock time t, the player standing still and
\* shooting along dir before each frame.
RECURSIVE volleys(_, _, _, _)
volleys(g, t, dir, n) ==
    IF n = 0 \/ g.state # PLAYING THEN g
    ELSE volleys(frame(shoot(g, t, dir), 0, t + 1, 1), t + 1, dir, n - 1)

\* Level 1, the player back from the key and in reach of the gate: one frame towards
\* the key, four towards the gate.
KeyRun == walk(walk(frame(startGame(Constructed), 0, 0, 0), 0, -1, 1), 1, 1, 4)

\* Level 2, the puzzle solved and closed by its callback, the player in reach of the
\* gate four frames later.
AltarRun ==
    walk(closePuzzle([tryInteract(Loaded(2, maxHealth), LoadTime)
                         EXCEPT !.puzzleSolved = TRUE]),
         LoadTime + puzzleTimeout, 1, 4)

\* Shots of the player that hit the boss before the mid-fight initial state.
FightShots == 9

\* Level 3 in the middle of the fight: the player stepped towards the boss in the
\* first frame and then shot at it once per frame, FightShots times.
MidFight ==
    volleys(frame(Loaded(3, maxHealth), 1, LoadTime + 1, 1), LoadTime + 1, 1, FightShots)

\* Level 3, one tick after MidFight: the player shot, stepped towards the boss and shot
\* again, so that two of the player's projectiles are on their way to the boss.
LastStand ==
    shoot(frame(shoot(MidFight, LoadTime + 1 + FightShots, 1),
                1, LoadTime + 2 + FightShots, 1),
          LoadTime + 2 + FightShots, 1)

\* Shots of the player fired at the boss before the half-fight initial state.
HalfShots == 5

\* Level 3 with the boss one hit above half of its health: as MidFight, HalfShots
\* shots, the last of them still in flight.
HalfFight ==
    volleys(frame(Loaded(3, maxHealth), 1, LoadTime + 1, 1), LoadTime + 1, 1, HalfShots)

\* Level 2 entered with one round left: the player fired maxAmmo - 1 rounds in level 1,
\* a shootCooldown apart, the last of them at DrainedShot.
DrainedShot == ((maxAmmo - 2) * TimeScale) \div shootCooldownDiv
DrainedTime == LoadTime + ((maxAmmo - 1) * TimeScale) \div shootCooldownDiv
Drained == [Loaded(2, maxHealth) EXCEPT !.ammo = 1, !.lastShootTime = DrainedShot]

\* Level 2, two frames after its load: the player shot away from the spirit at the
\* load and stood still, and the spirit has shot its first bolt.
Skirmish == walk(shoot(Loaded(2, maxHealth), LoadTime, -1), LoadTime, 0, 2)

\* Level 2 in the middle of the fight: the player stepped towards the spirit in the
\* first frame, in which the spirit shot its first bolt, and then hit it once.
SpiritFight ==
    volleys(frame(Loaded(2, maxHealth), 1, LoadTime + 1, 1), LoadTime + 1, 1, 1)

\* Level 3, four frames after its load: the player walked towards the boss all the
\* while, through the first shards of the boss.
Closing == walk(Loaded(3, maxHealth), LoadTime, 1, 4)

\* Player health left at the load of a later level: full, or one wolf bite from death.
StartHealth == {maxHealth, 10}

\* The initial states: the constructed object, and checkpoints of the play above.
Checkpoints ==
    {[g |-> Constructed, t |-> 0, loop |-> FALSE],
     [g |-> KeyRun, t |-> 5, loop |-> TRUE],
     [g |-> AltarRun, t |-> LoadTime + puzzleTimeout + 4, loop |-> TRUE],
     [g |-> MidFight, t |-> LoadTime + 1 + FightShots, loop |-> TRUE],
     [g |-> Drained, t |-> DrainedTime, loop |-> TRUE],
     [g |-> HalfFight, t |-> LoadTime + 1 + HalfShots, loop |-> TRUE],
     [g |-> LastStand, t |-> LoadTime + 2 + FightShots, loop |-> TRUE],
     [g |-> Skirmish, t |-> LoadTime + 2, loop |-> TRUE],
     [g |-> SpiritFight, t |-> LoadTime + 2, loop |-> TRUE],
     [g |-> Closing, t |-> LoadTime + 4, loop |-> TRUE]}
    \cup {[g |-> Loaded(levelNum, h), t |-> LoadTime, loop |-> TRUE] :
             levelNum \in {2, 3}, h \in StartHealth}

\* The variables hold the object g.
Is(g) ==
    /\ state = g.state
    /\ currentLevel = g.currentLevel
    /\ health = g.health
    /\ ammo = g.ammo
    /\ inventory = g.inventory
    /\ playerPos = g.playerPos
    /\ enemies = g.enemies
    /\ boss = g.boss
    /\ bossHealth = g.bossHealth
    /\ projectiles = g.projectiles
    /\ collectibles = g.collectibles
    /\ interactables = g.interactables
    /\ exitGate = g.exitGate
    /\ gateOpen = g.gateOpen
    /\ puzzleSolved = g.puzzleSolved
    /\ lastShootTime = g.lastShootTime
    /\ pointerLocked = g.pointerLocked
    /\ menuVisible = g.menuVisible
    /\ gameEndVisible = g.gameEndVisible
    /\ puzzleVisible = g.puzzleVisible
    /\ timers = g.timers

\* Spec and SpecGate do not follow the vertical motion: its variables keep these values.
PhysIdle ==
    /\ platforms = <<>>
    /\ keys = [Space |-> FALSE, KeyW |-> FALSE]
    /\ playerPlace = 1
    /\ playerY = 0
    /\ playerVelocityY = 0
    /\ playerOnGround = FALSE

Init ==
    /\ PhysIdle
    /\ pc = "idle"
    /\ idx = 0
    /\ delta = 0
    /\ \E c \in Checkpoints :
        /\ Is(c.g)
        /\ now = c.t
        /\ loopRunning = c.loop
    /\ deadline = now + MaxTime

----------------------------------------------------------------------------
\* Events.  Every handler runs to completion; a frame of gameLoop is followed
\* through its update calls one at a time (pc), and nothing else runs meanwhile.

\* The clock can advance by dt: the model follows it up to MaxTime, and a timer
\* callback runs before the first frame that is later than its due time.
CanAdvance(dt) ==
    /\ now + dt <= deadline
    /\ \A k \in 1..Len(timers) : now + dt <= timers[k].due

\* click on #start-btn: startGame(), which runs the first gameLoop frame itself
StartButton ==
    /\ UNCHANGED phys
    /\ pc = "idle"
    /\ menuVisible
    /\ Commit(updatePlayer(startGame(Game), 0, 0))
    /\ loopRunning' = TRUE
    /\ delta' = 0
    /\ pc' = "enemies"
    /\ UNCHANGED <<now, idx, deadline>>

\* click on #restart-btn: restartGame()
RestartButton ==
    /\ UNCHANGED phys
    /\ pc = "idle"
    /\ gameEndVisible
    /\ Commit(restartGame(Game))
    /\ UNCHANGED <<now, loopRunning, pc, idx, delta, deadline>>

\* Faulty variant of gameLoop: the updates of a frame run in the PUZZLE state too.
gameLoopRunsInPuzzle ==
    /\ UNCHANGED phys
    /\ pc = "idle"
    /\ loopRunning
    /\ \E dt \in 1..MaxDt :
        /\ CanAdvance(dt)
        /\ now' = now + dt
    /\ UNCHANGED deadline
    /\ IF state = GAME_OVER \/ state = VICTORY
       THEN /\ loopRunning' = FALSE
            /\ Commit(Game)
            /\ UNCHANGED <<pc, idx, delta>>
       ELSE /\ loopRunning' = TRUE
            /\ \E move \in {-1, 0, 1} : Commit(updatePlayer(Game, move, 1))
            /\ pc' = "enemies"
            /\ delta' = 1
            /\ UNCHANGED idx

\* gameLoop(), from its start to the end of updatePlayer and updateCamera
gameLoop ==
    /\ UNCHANGED phys
    /\ pc = "idle"
    /\ loopRunning
    /\ \E dt \in 1..MaxDt :
        /\ CanAdvance(dt)
        /\ now' = now + dt
    /\ UNCHANGED deadline
    /\ IF state = GAME_OVER \/ state = VICTORY
       THEN /\ loopRunning' = FALSE
            /\ Commit(Game)
            /\ UNCHANGED <<pc, idx, delta>>
       ELSE /\ loopRunning' = TRUE
            /\ IF state = PLAYING
               THEN /\ \E move \in {-1, 0, 1} : Commit(updatePlayer(Game, move, 1))
                    /\ pc' = "enemies"
                    /\ delta' = 1
                    /\ UNCHANGED idx
               ELSE /\ Commit(Game)
                    /\ UNCHANGED <<pc, idx, delta>>

\* gameLoop(): this.updateEnemies(delta)
UpdateEnemies ==
    /\ UNCHANGED phys
    /\ pc = "enemies"
    /\ Commit(updateEnemies(Game, now, delta))
    /\ pc' = "boss"
    /\ UNCHANGED <<now, loopRunning, idx, delta, deadline>>

\* gameLoop(): this.updateBoss(delta), and the entry of the loop of updateProjectiles
UpdateBoss ==
    /\ UNCHANGED phys
    /\ pc = "boss"
    /\ LET g == updateBoss(Game, now, delta)
       IN  /\ Commit(g)
           /\ idx' = Len(g.projectiles)
           /\ pc' = IF Len(g.projectiles) = 0 THEN "collectibles" ELSE "projectiles"
    /\ UNCHANGED <<now, loopRunning, delta, deadline>>

\* gameLoop(): this.updateProjectiles(delta), one pass of its loop (i = idx)
UpdateProjectiles ==
    /\ UNCHANGED phys
    /\ pc = "projectiles"
    /\ Commit(updateProjectile(Game, idx, now, delta))
    /\ idx' = idx - 1
    /\ pc' = IF idx - 1 = 0 THEN "collectibles" ELSE "projectiles"
    /\ UNCHANGED <<now, loopRunning, delta, deadline>>

\* gameLoop(): this.updateCollectibles()
UpdateCollectibles ==
    /\ UNCHANGED phys
    /\ pc = "collectibles"
    /\ Commit(updateCollectibles(Game))
    /\ pc' = "completion"
    /\ UNCHANGED <<now, loopRunning, idx, delta, deadline>>

\* gameLoop(): this.checkLevelCompletion(), and the end of the frame
CheckLevelCompletion ==
    /\ UNCHANGED phys
    /\ pc = "completion"
    /\ Commit(checkLevelCompletion(Game))
    /\ pc' = "idle"
    /\ delta' = 0
    /\ UNCHANGED <<now, loopRunning, idx, deadline>>

\* onKeyDown, e.code === 'KeyE'
KeyE ==
    /\ UNCHANGED phys
    /\ pc = "idle"
    /\ state = PLAYING
    /\ Len(tryInteract(Game, now).timers) <= MaxTimers
    /\ Commit(tryInteract(Game, now))
    /\ UNCHANGED <<now, loopRunning, pc, idx, delta, deadline>>

\* onKeyDown, e.code === 'Escape'
KeyEscape ==
    /\ UNCHANGED phys
    /\ pc = "idle"
    /\ state = PUZZLE
    /\ Commit(closePuzzle(Game))
    /\ UNCHANGED <<now, loopRunning, pc, idx, delta, deadline>>

\* onMouseDown, e.button === 0.  Clicks are followed while fewer than MaxShots shots of
\* the player are in flight, and always within shootCooldown of the last shot.
MouseDown ==
    /\ UNCHANGED phys
    /\ pc = "idle"
    /\ state = PLAYING
    /\ pointerLocked
    /\ \/ Cardinality({k \in 1..Len(projectiles) : projectiles[k].isPlayerProjectile}) < MaxShots
       \/ (now - lastShootTime) * shootCooldownDiv < TimeScale
    /\ \E dir \in {-1, 1} : Commit(shoot(Game, now, dir))
    /\ UNCHANGED <<now, loopRunning, pc, idx, delta, deadline>>

\* click on a rune button of openPuzzle that completes the correct pattern
PuzzleSolve ==
    /\ UNCHANGED phys
    /\ pc = "idle"
    /\ puzzleVisible
    /\ Len(timers) < MaxTimers
    /\ Commit(setTimeout([Game EXCEPT !.puzzleSolved = TRUE], now, "closePuzzle",
                         puzzleTimeout))
    /\ UNCHANGED <<now, loopRunning, pc, idx, delta, deadline>>

\* click on #puzzle-close: closePuzzle()
PuzzleCloseButton ==
    /\ UNCHANGED phys
    /\ pc = "idle"
    /\ puzzleVisible
    /\ Commit(closePuzzle(Game))
    /\ UNCHANGED <<now, loopRunning, pc, idx, delta, deadline>>

\* The setTimeout callback cb, run on the object g.
runCallback(g, cb) ==
    IF cb = "nextLevel" THEN nextLevel(g) ELSE closePuzzle(g)

\* Index in ts of the callback that runs next at clock time t: the earliest due one,
\* the first scheduled among those due at the same time; 0 when none is due.
nextDue(ts, t) ==
    LET due == {k \in 1..Len(ts) :
                   /\ ts[k].due <= t
                   /\ \A j \in 1..Len(ts) :
                        ts[j].due > ts[k].due \/ (ts[j].due = ts[k].due /\ j >= k)}
    IN  IF due = {} THEN 0 ELSE CHOOSE k \in due : TRUE

\* A pending setTimeout callback is due and runs.
TimerFire ==
    /\ UNCHANGED phys
    /\ pc = "idle"
    /\ nextDue(timers, now) # 0
    /\ LET k == nextDue(timers, now)
       IN  Commit(runCallback([Game EXCEPT !.timers = Splice(@, k)], timers[k].callback))
    /\ UNCHANGED <<now, loopRunning, pc, idx, delta, deadline>>

\* Time passes while no frame is pending (the loop has ended).
ClockAdvance ==
    /\ UNCHANGED phys
    /\ pc = "idle"
    /\ ~loopRunning
    /\ ~menuVisible
    /\ \E dt \in 1..MaxDt :
        /\ CanAdvance(dt)
        /\ now' = now + dt
    /\ UNCHANGED <<state, currentLevel, health, ammo, inventory, playerPos, enemies, boss,
                   bossHealth, projectiles, collectibles, interactables, exitGate, gateOpen,
                   puzzleSolved, lastShootTime, pointerLocked, menuVisible, gameEndVisible,
                   puzzleVisible, timers, loopRunning, pc, idx, delta, deadline>>

Next ==
    \/ StartButton
    \/ RestartButton
    \/ gameLoop
    \/ UpdateEnemies
    \/ UpdateBoss
    \/ UpdateProjectiles
    \/ UpdateCollectibles
    \/ CheckLevelCompletion
    \/ KeyE
    \/ KeyEscape
    \/ MouseDown
    \/ PuzzleSolve
    \/ PuzzleCloseButton
    \/ TimerFire
    \/ ClockAdvance

Spec == Init /\ [][Next]_vars

----------------------------------------------------------------------------
\* tryOpenGate on its own.  The handler reads the level index, the inventory and
\* puzzleSolved; the levels the game loads have a gate only under the indices 1 and
\* 2, so the handler is applied here to the object of a loaded level 2 with every
\* level index up to maxLevels + 1, every inventory of keys and both values of
\* puzzleSolved in these fields.

GateInputs ==
    {[Loaded(2, maxHealth) EXCEPT !.currentLevel = levelNum,
                                  !.inventory = <<a, b, c>>,
                                  !.puzzleSolved = solved] :
        levelNum \in 1..(maxLevels + 1), a \in {Null, "key"}, b \in {Null, "key"},
        c \in {Null, "key"}, solved \in BOOLEAN}

InitGate ==
    /\ PhysIdle
    /\ pc = "idle"
    /\ idx = 0
    /\ delta = 0
    /\ now = LoadTime
    /\ loopRunning = TRUE
    /\ deadline = now + MaxTime
    /\ \E g \in GateInputs : Is(g)

\* The action of the gate interactable: () => this.tryOpenGate()
ActivateGate ==
    /\ UNCHANGED phys
    /\ pc = "idle"
    /\ Commit(tryOpenGate(Game, now))
    /\ pc' = "activated"
    /\ UNCHANGED <<now, loopRunning, idx, delta, deadline>>

NextGate == ActivateGate

SpecGate == InitGate /\ [][NextGate]_vars

----------------------------------------------------------------------------
\* The pickup on its own.  The game holds one key, so its play fills one slot at
\* most; collectItem reads the inventory whatever it holds, and the pickup check of a
\* frame is applied here to the object of a started level 1 with every inventory of
\* keys, the player anywhere on the axis, and health and ammunition low or full.

CollectInputs ==
    {[startGame(Constructed) EXCEPT !.inventory = <<a, b, c>>, !.playerPos = x,
                                    !.health = h, !.ammo = m] :
        a \in {Null, "key"}, b \in {Null, "key"}, c \in {Null, "key"},
        x \in 0..MaxPos, h \in StartHealth, m \in {0, maxAmmo}}

InitCollect ==
    /\ PhysIdle
    /\ pc = "idle"
    /\ idx = 0
    /\ delta = 0
    /\ now = 0
    /\ loopRunning = TRUE
    /\ deadline = now + MaxTime
    /\ \E g \in CollectInputs : Is(g)

\* gameLoop(): this.updateCollectibles()
PickUp ==
    /\ UNCHANGED phys
    /\ pc = "idle"
    /\ Commit(updateCollectibles(Game))
    /\ pc' = "collected"
    /\ UNCHANGED <<now, loopRunning, idx, delta, deadline>>

NextCollect == PickUp

SpecCollect == InitCollect /\ [][NextCollect]_vars

----------------------------------------------------------------------------
\* updateEnemies on its own.  The axis of Spec is shorter than the aggro ranges, so
\* the enemies of a level are followed here with the player standing at the spawn
\* point and the two enemies of the level anywhere up to MaxFar from the player, the
\* first of them alive or already brought to 0 health.

MaxFar == 21

EnemyInputs ==
    {[startGame(Constructed) EXCEPT
            !.playerPos = 0, !.health = h,
            !.enemies = <<[createSnowWolf(a) EXCEPT !.health = e], createSnowWolf(b)>>] :
        a \in 0..MaxFar, b \in 0..MaxFar, h \in StartHealth, e \in {0, 30}}
    \cup
    {[Loaded(2, h) EXCEPT
            !.playerPos = 0,
            !.enemies = <<[createIceSpirit(a) EXCEPT !.health = e], createIceSpirit(b)>>] :
        a \in 0..MaxFar, b \in 0..MaxFar, h \in StartHealth, e \in {0, 20}}

InitEnemy ==
    /\ PhysIdle
    /\ pc = "idle"
    /\ idx = 0
    /\ delta = 0
    /\ now = LoadTime
    /\ loopRunning = TRUE
    /\ deadline = now + MaxTime
    /\ \E g \in EnemyInputs : Is(g)

\* gameLoop(): this.updateEnemies(delta), in the frame one clock step later
EnemiesTick ==
    /\ UNCHANGED phys
    /\ pc = "idle"
    /\ state = PLAYING
    /\ now < deadline
    /\ now' = now + 1
    /\ delta' = 1
    /\ Commit(updateEnemies(Game, now + 1, 1))
    /\ UNCHANGED <<loopRunning, pc, idx, deadline>>

NextEnemy == EnemiesTick

SpecEnemy == InitEnemy /\ [][NextEnemy]_vars

----------------------------------------------------------------------------
\* updateProjectiles on its own.  The frames of Spec follow each other one clock step
\* apart; the browser can leave any time between two frames (a hidden tab gets none),
\* and the clamp of gameLoop then moves a projectile by 0.1 s of flight while its age
\* grows by the whole gap.  The loop of one frame is followed here in level 2 with a
\* bolt of a spirit and a shot of the player anywhere on the axis, in either order in
\* the list, the bolt of any age up to one step past its lifetime.

\* Clock time of the frame.
ProjTime == LoadTime + 3 * TimeScale + 2

\* The bolt a spirit shot at clock time t, now at position x and flying in direction dir.
Bolt(x, dir, t) ==
    [enemyShoot(Loaded(2, maxHealth), createIceSpirit(7), dir, t).projectiles[1]
        EXCEPT !.pos = x]

\* The shot the player fired one step ago, now at position x.
Shot(x) ==
    [shoot(Loaded(2, maxHealth), ProjTime - 1, 1).projectiles[1] EXCEPT !.pos = x]

\* The object of the frame: the player at x with h health, having shot one step ago;
\* the bolt at b, the shot at q, the bolt before the shot in the list if first.
ProjInput(h, x, b, q, dir, age, first) ==
    [Loaded(2, h) EXCEPT !.playerPos = x, !.lastShootTime = ProjTime - 1,
                         !.ammo = maxAmmo - 1,
                         !.projectiles = IF first THEN <<Bolt(b, dir, ProjTime - age), Shot(q)>>
                                         ELSE <<Shot(q), Bolt(b, dir, ProjTime - age)>>]

\* The frame has run updatePlayer, updateEnemies and updateBoss and enters the loop
\* of updateProjectiles at the last projectile.
InitProj ==
    /\ PhysIdle
    /\ pc = "projectiles"
    /\ idx = 2
    /\ delta = 1
    /\ now = ProjTime
    /\ loopRunning = TRUE
    /\ deadline = now + MaxTime
    /\ \E h \in StartHealth, x \in 0..MaxPos, b \in 0..MaxPos, q \in 0..MaxPos,
          dir \in {-1, 1}, age \in 0..(3 * TimeScale + 1), first \in BOOLEAN :
        Is(ProjInput(h, x, b, q, dir, age, first))

NextProj == UpdateProjectiles

SpecProj == InitProj /\ [][NextProj]_vars

----------------------------------------------------------------------------
\* The vertical motion of the player: updatePlayer from the jump on, and
\* checkPlatformCollision.  Horizontal lengths are in units of 1/XZScale world unit,
\* delta in units of 1/DeltaScale second, the vertical velocity in units of 1/VScale
\* world unit per second and heights in units of 1/YScale world unit, so that
\* velocity * delta is a height.  The horizontal position of the player is one of
\* the sample points Places of the loaded level; a tick with a movement key held and
\* delta > 0 may take the player to a neighbouring sample point.

XZScale == 2
DeltaScale == 20
VScale == 4
YScale == VScale * DeltaScale

jumpForce == 12
gravity == 25

\* Math.min(this.clock.getDelta(), 0.1): the largest delta of a frame
MaxDelta == DeltaScale \div 10

\* createSnowGround(): the ground mesh, userData.isGround
createSnowGround ==
    [kind |-> "ground", x |-> 0, z |-> 0, y |-> 0, halfWidth |-> 0, halfDepth |-> 0,
     height |-> 0]

\* createBossArena(): the arena cylinder, userData.isArena
createArena ==
    [kind |-> "arena", x |-> 0, z |-> 0, y |-> 0, halfWidth |-> 0, halfDepth |-> 0,
     height |-> 2 * YScale]

\* createIcePlatform(x, y, z, width, height, depth), the arguments in half world units
createIcePlatform(x, y, z, width, height, depth) ==
    [kind |-> "box", x |-> x, z |-> z, y |-> y * (YScale \div 2),
     halfWidth |-> width \div 2, halfDepth |-> depth \div 2,
     height |-> height * (YScale \div 2)]

\* this.platforms after loadLevel(levelNum), in the order of registration.  The cover
\* platforms of level 3 stand at 12 * cos(45 degrees) = 8.49 from the axes, here 8.5.
levelPlatforms(levelNum) ==
    CASE levelNum = 1 ->
           <<createSnowGround,
             createIcePlatform(10, 3, -20, 8, 1, 8),
             createIcePlatform(24, 6, -30, 8, 1, 8),
             createIcePlatform(36, 9, -20, 8, 1, 8),
             createIcePlatform(50, 12, -30, 10, 1, 10),
             createIcePlatform(-20, 4, 10, 6, 1, 6),
             createIcePlatform(-36, 7, 16, 6, 1, 6),
             createIcePlatform(-50, 10, 10, 8, 1, 8)>>
      [] levelNum = 2 ->
           <<createSnowGround,
             createIcePlatform(0, 7, -60, 40, 2, 60),
             createIcePlatform(0, 2, -16, 12, 1, 12),
             createIcePlatform(16, 5, -30, 10, 1, 10),
             createIcePlatform(0, 8, -50, 16, 1, 16)>>
      [] levelNum = 3 ->
           <<createSnowGround,
             createArena,
             createIcePlatform(17, 3, 17, 8, 6, 8),
             createIcePlatform(-17, 3, 17, 8, 6, 8),
             createIcePlatform(-17, 3, -17, 8, 6, 8),
             createIcePlatform(17, 3, -17, 8, 6, 8)>>
      [] OTHER -> <<createSnowGround>>

\* Sample points <<x, z>> of a level along a walk from the spawn point: level 1 the
\* spawn point and its first two platforms; level 2 the spawn point, the first two
\* platforms, the edge of the temple base under the second, the third platform on
\* the base, and the base alone; level 3 the spawn point outside the arena, the arena
\* and a cover platform.
Places(levelNum) ==
    CASE levelNum = 1 -> <<<<0, 0>>, <<10, -20>>, <<24, -30>>>>
      [] levelNum = 2 -> <<<<0, 0>>, <<0, -16>>, <<16, -30>>, <<16, -32>>, <<0, -50>>,
                           <<0, -70>>>>
      [] levelNum = 3 -> <<<<0, 60>>, <<0, 40>>, <<17, 17>>>>
      [] OTHER -> <<<<0, 0>>>>

\* The body of the player: [x, z, y, vy, onGround].
platformTop(platform) == platform.y + platform.height \div 2

\* checkPlatformCollision(platform): TRUE when the platform lands the player
landingTest(platform, b) ==
    CASE platform.kind = "ground" -> FALSE
      [] platform.kind = "arena" ->
           /\ b.x * b.x + b.z * b.z < (25 * XZScale) * (25 * XZScale)
           /\ b.y < 2 * YScale
           /\ b.y > 0
           /\ b.vy < 0
      [] OTHER ->
           /\ b.x > platform.x - platform.halfWidth
           /\ b.x < platform.x + platform.halfWidth
           /\ b.z > platform.z - platform.halfDepth
           /\ b.z < platform.z + platform.halfDepth
           /\ b.y < platformTop(platform) + YScale
           /\ 2 * b.y > 2 * platformTop(platform) - YScale
           /\ b.vy < 0

\* checkPlatformCollision(platform): the body after the call
checkPlatformCollision(platform, b) ==
    IF landingTest(platform, b)
    THEN [b EXCEPT !.y = IF platform.kind = "arena" THEN 2 * YScale
                         ELSE platformTop(platform) + YScale,
                   !.vy = 0, !.onGround = TRUE]
    ELSE b

\* Faulty variant of platformsFrom: the platform registered last among those that land
\* the player resolves the tick.
platformsFromLast(plats, k, b) ==
    LET landing == {j \in k..Len(plats) : landingTest(plats[j], b)}
    IN  IF landing = {} THEN b
        ELSE checkPlatformCollision(plats[CHOOSE j \in landing : \A h \in landing : h <= j], b)

\* for (const platform of this.platforms) if (checkPlatformCollision(platform)) break
RECURSIVE platformsFrom(_, _, _)
platformsFrom(plats, k, b) ==
    IF k > Len(plats) THEN b
    ELSE IF landingTest(plats[k], b) THEN checkPlatformCollision(plats[k], b)
    ELSE platformsFrom(plats, k + 1, b)

\* Faulty variant of groundLevel: the clamp starts at height 0.
groundLevelAtZero(b) ==
    IF b.y < 0 THEN [b EXCEPT !.y = 1 * YScale, !.vy = 0, !.onGround = TRUE]
    ELSE b

\* Faulty variant of groundLevel: the clamp leaves the vertical velocity.
groundLevelKeepsVelocity(b) ==
    IF b.y < 1 * YScale THEN [b EXCEPT !.y = 1 * YScale, !.onGround = TRUE]
    ELSE b

\* "Ground level" of updatePlayer
groundLevel(b) ==
    IF b.y < 1 * YScale THEN [b EXCEPT !.y = 1 * YScale, !.vy = 0, !.onGround = TRUE]
    ELSE b

\* Faulty variant of jump: the jump does not ask whether the player is on the ground.
jumpInAir(b, ks) ==
    IF ks.Space THEN [b EXCEPT !.vy = jumpForce * VScale, !.onGround = FALSE]
    ELSE b

\* "Jump" of updatePlayer
jump(b, ks) ==
    IF ks.Space /\ b.onGround THEN [b EXCEPT !.vy = jumpForce * VScale, !.onGround = FALSE]
    ELSE b

\* "Gravity" and "Apply velocity" of updatePlayer, the horizontal velocity taking the
\* player to the sample point xz
integrate(b, xz, d) ==
    LET vy == b.vy - (gravity * VScale * d) \div DeltaScale
    IN  [b EXCEPT !.vy = vy, !.y = @ + vy * d, !.x = xz[1], !.z = xz[2]]

\* updatePlayer(delta) from the jump on
updatePlayerY(b, plats, ks, xz, d) ==
    groundLevel(platformsFrom(plats, 1, [integrate(jump(b, ks), xz, d) EXCEPT !.onGround = FALSE]))

\* The body the variables hold.
Body ==
    [x |-> Places(currentLevel)[playerPlace][1], z |-> Places(currentLevel)[playerPlace][2],
     y |-> playerY, vy |-> playerVelocityY, onGround |-> playerOnGround]

\* The variables of Spec that the vertical motion leaves alone.
game == <<state, currentLevel, health, ammo, inventory, playerPos, enemies, boss,
          bossHealth, projectiles, collectibles, interactables, exitGate, gateOpen,
          puzzleSolved, lastShootTime, pointerLocked, menuVisible, gameEndVisible,
          puzzleVisible, timers, now, loopRunning, pc, idx, deadline>>

\* A level just loaded: the player at the spawn point at y = 1; resetPlayer left the
\* velocity 0 and playerOnGround false at the start of level 1, and a later level is
\* entered with the playerOnGround of the level before.
InitPhys ==
    /\ pc = "idle"
    /\ idx = 0
    /\ delta = 0
    /\ now = LoadTime
    /\ loopRunning = TRUE
    /\ deadline = now + MaxTime
    /\ \E levelNum \in 1..maxLevels :
          /\ Is(IF levelNum = 1 THEN startGame(Constructed) ELSE Loaded(levelNum, maxHealth))
          /\ platforms = levelPlatforms(levelNum)
          /\ playerOnGround \in (IF levelNum = 1 THEN {FALSE} ELSE BOOLEAN)
    /\ keys = [Space |-> FALSE, KeyW |-> FALSE]
    /\ playerPlace = 1
    /\ playerY = 1 * YScale
    /\ playerVelocityY = 0

\* onKeyDown: this.keys[e.code] = true
KeyDown ==
    /\ \E code \in {"Space", "KeyW"} :
          /\ ~keys[code]
          /\ keys' = [keys EXCEPT ![code] = TRUE]
    /\ UNCHANGED <<game, delta, platforms, playerPlace, playerY, playerVelocityY,
                   playerOnGround>>

\* onKeyUp: this.keys[e.code] = false
KeyUp ==
    /\ \E code \in {"Space", "KeyW"} :
          /\ keys[code]
          /\ keys' = [keys EXCEPT ![code] = FALSE]
    /\ UNCHANGED <<game, delta, platforms, playerPlace, playerY, playerVelocityY,
                   playerOnGround>>

\* gameLoop(): this.updatePlayer(delta), delta in units of 1/DeltaScale second
UpdatePlayer ==
    /\ state = PLAYING
    /\ \E d \in 0..MaxDelta :
       \E place \in 1..Len(Places(currentLevel)) :
          /\ IF keys.KeyW /\ d > 0
             THEN place \in {playerPlace - 1, playerPlace, playerPlace + 1}
             ELSE place = playerPlace
          /\ LET b == updatePlayerY(Body, platforms, keys, Places(currentLevel)[place], d)
             IN  /\ playerY' = b.y
                 /\ playerVelocityY' = b.vy
                 /\ playerOnGround' = b.onGround
          /\ playerPlace' = place
          /\ delta' = d
    /\ UNCHANGED <<game, platforms, keys>>

NextPhys ==
    \/ KeyDown
    \/ KeyUp
    \/ UpdatePlayer

SpecPhys == InitPhys /\ [][NextPhys]_vars

----------------------------------------------------------------------------
\* Properties.

\* A step that loads a level: nextLevel below the last level, startGame, restartGame.
LevelLoad ==
    \/ currentLevel' # currentLevel /\ currentLevel' <= maxLevels
    \/ gameEndVisible /\ ~gameEndVisible'
    \/ menuVisible /\ ~menuVisible'

\* The callback that runs in this step is a level transition (nextLevel).
TransitionFires ==
    /\ pc = "idle"
    /\ nextDue(timers, now) # 0
    /\ timers[nextDue(timers, now)].callback = "nextLevel"
    /\ Len(timers') < Len(timers)

\* What checkLevelCompletion asks for.
CompletionHolds == exitGate # NoPos /\ gateOpen /\ Dist(playerPos, exitGate) < 3

\* The step is the KeyE handler reaching tryOpenGate in level levelNum.
GateActivated(levelNum) ==
    /\ KeyE
    /\ currentLevel = levelNum
    /\ firstInRange(Game) # 0
    /\ interactables[firstInRange(Game)].type = "gate"

HasKey == \E k \in 1..Len(inventory) : inventory[k] = "key"

\* C1: the health of the player is always within 0..maxHealth.
C1_HealthInRange == 0 <= health /\ health <= maxHealth

\* C2: a level-transition callback that fires after the level whose gate scheduled it
\* was unloaded (the gate of the loaded level was never opened: gateOpen is false)
\* changes neither the level index nor any state of the loaded level.
C2_StaleTransitionNoOp ==
    [][(TransitionFires /\ ~gateOpen) =>
          UNCHANGED <<state, currentLevel, health, ammo, inventory, playerPos, enemies, boss,
                      bossHealth, projectiles, collectibles, interactables, exitGate,
                      gateOpen, puzzleSolved>>]_vars

\* C3 as stated: the level index advances exactly in the completion check of a tick
\* that finds an exit gate, gateOpen true and the player less than 3 from the gate.
C3_AdvanceOnlyAtCompletion ==
    [][(currentLevel' = currentLevel + 1) <=> (pc = "completion" /\ CompletionHolds)]_vars

\* C3, amended: the level index advances exactly in the completion check of a tick
\* that finds an exit gate, gateOpen true and the player less than 3 from the gate,
\* or when a transition callback fires; the completion check itself never advances
\* with the gate closed or the player 3 or more away.
C3_AdvanceAtCompletionOrCallback ==
    [][(currentLevel' = currentLevel + 1)
          <=> ((pc = "completion" /\ CompletionHolds) \/ TransitionFires)]_vars

\* C3 happened: level 2 was entered through the completion check, the transition
\* callback of the level-1 gate still pending.
C3_Witness ==
    /\ currentLevel = 2
    /\ state = PLAYING
    /\ ~gateOpen
    /\ \E k \in 1..Len(timers) : timers[k].callback = "nextLevel"

Moved == [projectiles[idx] EXCEPT !.pos = ClampProj(@ + projectiles[idx].velocity * delta)]

\* This pass of the projectile loop: only projectiles[idx] moves; it is removed, alone,
\* exactly when it expired or a hit was registered, and never for both.
ProjectilePass ==
    LET moved == [projectiles EXCEPT ![idx] = Moved]
        expired == now - Moved.spawnTime > Moved.lifetime
        hit == health' # health \/ enemies' # enemies \/ bossHealth' # bossHealth
    IN  /\ projectiles' = moved \/ projectiles' = Splice(moved, idx)
        /\ (projectiles' = Splice(moved, idx)) <=> (expired \/ hit)
        /\ ~(expired /\ hit)

\* C5 as stated: a projectile leaves the list only in its own pass of the projectile
\* loop, by a hit or by expiry and never both, and no other projectile leaves with it.
C5_RemovedByHitOrExpiryOnly ==
    [][/\ pc = "projectiles" => ProjectilePass
       /\ pc # "projectiles" => Len(projectiles') >= Len(projectiles)]_vars

\* C5, amended: outside its own pass of the projectile loop a projectile leaves the
\* list only when a level is loaded, which empties the list.
C5_RemovedByHitExpiryOrLoad ==
    [][/\ pc = "projectiles" => ProjectilePass
       /\ (pc # "projectiles" /\ Len(projectiles') < Len(projectiles))
             => (LevelLoad /\ projectiles' = <<>>)]_vars

\* C5 happened: the shot of the player hit an enemy and left the list in that pass.
C5_Witness ==
    /\ pc = "collectibles"
    /\ projectiles = <<>>
    /\ ammo < maxAmmo
    /\ \E j \in 1..Len(enemies) : enemies[j].health < enemies[j].maxHealth

\* C6: the VICTORY that updateBoss entered (the level index is still 3) stays until
\* restartGame.
C6_VictoryTerminal ==
    [][(state = VICTORY /\ currentLevel = 3)
          => (state' = VICTORY \/ (gameEndVisible /\ ~gameEndVisible'))]_vars

\* The boss of level 3 has no health left and is not yet removed.
BossDead == currentLevel = 3 /\ boss.present /\ bossHealth <= 0

\* C7: once the health of the boss is <= 0 in level 3 the boss neither moves nor
\* attacks, the next tick runs its updates, and the boss update of that tick removes
\* the boss and enters VICTORY.
C7_BossDeathEndsGame ==
    [][BossDead =>
          /\ boss' = boss \/ ~boss'.present
          /\ pc = "boss" => (~boss'.present /\ state' = VICTORY)
          /\ (pc = "idle" /\ now' # now) => pc' = "enemies"]_vars

\* C8: activating the level-1 gate with a key in the inventory opens the gate and
\* empties the first slot that holds a key, the other slots unchanged; without a key
\* gateOpen and the inventory keep their values.
C8_Level1GateNeedsKey ==
    [][GateActivated(1) =>
          IF HasKey
          THEN /\ gateOpen'
               /\ inventory' = [inventory EXCEPT ![keyIndex(inventory)] = Null]
          ELSE UNCHANGED <<gateOpen, inventory>>]_vars

\* C8 happened: the level-1 gate was opened and took the key.
C8_Witness ==
    /\ currentLevel = 1
    /\ gateOpen
    /\ ~HasKey
    /\ \E k \in 1..Len(timers) : timers[k].callback = "nextLevel"

\* C9: activating the level-2 gate opens it exactly when puzzleSolved is true, and
\* leaves puzzleSolved and the inventory unchanged.
C9_Level2GateNeedsPuzzle ==
    [][GateActivated(2) =>
          /\ gateOpen' <=> puzzleSolved
          /\ UNCHANGED <<puzzleSolved, inventory>>]_vars

\* C9 happened: the level-2 gate was opened, the puzzle still solved.
C9_Witness ==
    /\ currentLevel = 2
    /\ gateOpen
    /\ puzzleSolved
    /\ \E k \in 1..Len(timers) : timers[k].callback = "nextLevel"

\* C10: activating the level-1 gate without a key changes nothing and schedules no
\* callback.
C10_NoKeyNoChange ==
    [][(GateActivated(1) /\ ~HasKey) => UNCHANGED vars]_vars

\* C10 happened: the player is in reach of the closed level-1 gate without a key.
C10_Witness ==
    /\ currentLevel = 1
    /\ state = PLAYING
    /\ pc = "idle"
    /\ ~HasKey
    /\ ~gateOpen
    /\ firstInRange(Game) # 0
    /\ interactables[firstInRange(Game)].type = "gate"

\* C11: under a level index greater than 2 a gate activation leaves the gate closed,
\* schedules no callback and changes neither the inventory nor puzzleSolved.
C11_FailClosed ==
    [][currentLevel > 2 =>
          /\ ~gateOpen'
          /\ UNCHANGED <<gateOpen, timers, inventory, puzzleSolved>>]_vars

\* C11 happened: the gate was activated under a level index greater than 2 with a key
\* held and the puzzle solved.
C11_Witness ==
    /\ pc = "activated"
    /\ currentLevel > 2
    /\ HasKey
    /\ puzzleSolved
    /\ ~gateOpen
    /\ timers = <<>>

\* The enemies of a registry that are alive, in the order of the registry.
IsAlive(enemy) == enemy.health > 0
Alive(es) == SelectSeq(es, IsAlive)

\* C12: within one loaded level the enemy update of a tick keeps exactly the enemies
\* whose health was > 0 when the previous tick ended, in their order and with their
\* health, and nothing else of the tick or between two ticks adds or removes one.
C12_RegistryIffAlive ==
    [][/\ pc = "enemies" =>
             /\ Len(enemies') = Len(Alive(enemies))
             /\ \A k \in 1..Len(enemies') :
                   /\ enemies'[k].health = Alive(enemies)[k].health
                   /\ enemies'[k].type = Alive(enemies)[k].type
       /\ pc # "enemies" /\ ~LevelLoad =>
             /\ Len(enemies') = Len(enemies)
             /\ \A k \in 1..Len(enemies) : enemies'[k].type = enemies[k].type
       /\ pc = "idle" /\ ~LevelLoad => enemies' = enemies]_vars

\* C12 happened: the ice spirit of level 2, hit twice, has left the registry and the
\* tick that removed it has ended.
C12_Witness ==
    /\ currentLevel = 2
    /\ state = PLAYING
    /\ pc = "idle"
    /\ enemies = <<>>
    /\ ammo = maxAmmo - 2

\* C13: an enemy whose health is <= 0 does nothing in the enemy update: the update
\* leaves the game as it leaves it when the dead enemies are not in the registry at
\* all, so no dead enemy moved, damaged the player or spawned a projectile.
C13_DeadEnemyNeverActs ==
    [][pc = "enemies" /\ (\E k \in 1..Len(enemies) : enemies[k].health <= 0) =>
          LET g == updateEnemies([Game EXCEPT !.enemies = Alive(enemies)], now, delta)
          IN  /\ enemies' = g.enemies
              /\ projectiles' = g.projectiles
              /\ health' = g.health
              /\ state' = g.state]_vars

\* C13 happened: the enemy update has just removed the ice spirit, killed by the shot
\* fired two ticks before within the spirit's attack range, and the spirit spawned no
\* bolt in this tick.
C13_Witness ==
    /\ currentLevel = 2
    /\ pc = "boss"
    /\ enemies = <<>>
    /\ ammo = maxAmmo - 2
    /\ lastShootTime = now - 2
    /\ Dist(playerPos, 7) < 8
    /\ \A k \in 1..Len(projectiles) : projectiles[k].spawnTime # now

\* C14: the ammunition count is never below 0 and never above maxAmmo.
C14_AmmoInRange == 0 <= ammo /\ ammo <= maxAmmo

\* C14 happened: a round was fired after the load and the ammo pickup of level 2 was
\* collected afterwards, and the count is at maxAmmo, not above.
C14_Witness ==
    /\ currentLevel = 2
    /\ collectibles = <<>>
    /\ lastShootTime >= LoadTime
    /\ ammo = maxAmmo

\* C15: a click with no ammunition left changes nothing: no projectile is added, and
\* ammo, lastShootTime and every other variable keep their values.
C15_EmptyGunNoChange == [][MouseDown /\ ammo = 0 => UNCHANGED vars]_vars

\* C15 happened: the last round was fired, its cooldown is over and its projectile is
\* gone, and the player, in play with the pointer locked, has an empty gun.
C15_Witness ==
    /\ ammo = 0
    /\ state = PLAYING
    /\ pointerLocked
    /\ pc = "idle"
    /\ lastShootTime >= DrainedTime
    /\ now > lastShootTime
    /\ \A k \in 1..Len(projectiles) : ~projectiles[k].isPlayerProjectile

\* The click is less than shootCooldown after the last successful shot.
InCooldown == (now - lastShootTime) * shootCooldownDiv < TimeScale

\* C16: a click inside the cooldown changes nothing; a click that shoots comes at least
\* shootCooldown after the last successful shot, takes exactly one round, appends
\* exactly one projectile, owned by the player, and becomes the last successful shot;
\* nothing else moves lastShootTime.
C16_ShotsRespectCooldown ==
    [][/\ MouseDown /\ InCooldown => UNCHANGED vars
       /\ MouseDown =>
             /\ ~InCooldown
             /\ ammo' = ammo - 1
             /\ Len(projectiles') = Len(projectiles) + 1
             /\ SubSeq(projectiles', 1, Len(projectiles)) = projectiles
             /\ projectiles'[Len(projectiles')].isPlayerProjectile
             /\ ~projectiles'[Len(projectiles')].isEnemyProjectile
             /\ lastShootTime' = now
       /\ lastShootTime' # lastShootTime => MouseDown]_vars

\* C16 happened: a second shot was fired one tick after the first in level 2, each
\* taking one round, and its projectile is the last of the list.
C16_Witness ==
    /\ currentLevel = 2
    /\ pc = "idle"
    /\ ammo = maxAmmo - 2
    /\ lastShootTime = now
    /\ lastShootTime > LoadTime
    /\ Len(projectiles) > 0
    /\ projectiles[Len(projectiles)].isPlayerProjectile
    /\ projectiles[Len(projectiles)].spawnTime = now

\* The projectile is older than its lifetime at the clock time of this tick.
Expired(proj) == now - proj.spawnTime > proj.lifetime

\* The pass of the projectile loop for projectiles[idx] keeps it, moved, when it is not
\* older than its lifetime and nothing was hit, and removes it when it is older; the
\* projectiles the loop has passed are none of them older than their lifetime.
LifetimePass ==
    /\ pc = "projectiles" =>
          LET moved == [projectiles EXCEPT ![idx] = Moved]
              hit == health' # health \/ enemies' # enemies \/ bossHealth' # bossHealth
          IN  /\ Expired(Moved) => projectiles' = Splice(moved, idx)
              /\ ~Expired(Moved) /\ ~hit => projectiles' = moved
    /\ pc \in {"collectibles", "completion"} =>
          \A k \in 1..Len(projectiles) : ~Expired(projectiles[k])

\* Every projectile of the list is in the list after the step, at its index.
AllKept ==
    /\ Len(projectiles') >= Len(projectiles)
    /\ SubSeq(projectiles', 1, Len(projectiles)) = projectiles

\* C17 as stated: a projectile that hits nothing is in the list after every tick in
\* which its age is at most its lifetime, and leaves it in the first tick in which its
\* age exceeds its lifetime; nothing but its own pass of the loop takes it away.
C17_LivesItsLifetime ==
    [][LifetimePass /\ (pc # "projectiles" => AllKept)]_vars

\* C17, amended: the same, except that a level load between or at the end of a tick
\* empties the list whatever the age of the projectiles.
C17_LivesItsLifetimeOrLoad ==
    [][LifetimePass /\ (pc # "projectiles" /\ ~LevelLoad => AllKept)]_vars

\* C17 happened: the shot fired in level 2 hit nothing, was in the list until its age
\* was 2 s, and the projectile loop of the first tick after that has removed it.
C17_Witness ==
    /\ currentLevel = 2
    /\ pc = "collectibles"
    /\ ammo = maxAmmo - 1
    /\ now - lastShootTime = 2 * TimeScale + 1
    /\ lastShootTime >= LoadTime
    /\ \A k \in 1..Len(projectiles) : ~projectiles[k].isPlayerProjectile
    /\ Len(enemies) = 1
    /\ enemies[1].health = enemies[1].maxHealth

\* The boss update of this step finds the boss of level 3 alive.
BossFights == pc = "boss" /\ currentLevel = 3 /\ boss.present /\ bossHealth > 0

\* The time of the last attack as the boss update reads it: 0 before the first attack.
LastAttack == IF boss.lastAttack = Undefined THEN 0 ELSE boss.lastAttack

\* The cooldown the claims state: 2 s above half of the boss's health, 1 s otherwise.
StatedCooldown == IF 2 * bossHealth > bossMaxHealth THEN 2 * TimeScale ELSE 1 * TimeScale

\* C18: the boss update attacks exactly when more than the cooldown has passed since the
\* last attack, the cooldown being 2 s when the current health of the boss is above
\* half of bossMaxHealth and 1 s otherwise (also at exactly half); an attack sets
\* lastAttack to now, and without an attack lastAttack stays and nothing is thrown at or
\* taken from the player.
C18_CooldownByHealth ==
    [][BossFights =>
          LET attacks == now - LastAttack > StatedCooldown
          IN  /\ boss'.lastAttack = IF attacks THEN now ELSE LastAttack
              /\ attacks <=> (health' # health \/ projectiles' # projectiles)]_vars

\* C18 happened: the boss, at exactly half of its health, has just attacked.
C18_Witness ==
    /\ currentLevel = 3
    /\ pc = "projectiles"
    /\ boss.present
    /\ 2 * bossHealth = bossMaxHealth
    /\ boss.lastAttack = now

\* C19: an attack of the boss at a distance below 5 is a ground slam, which takes 20
\* from the player's health once and adds no projectile; any other attack adds exactly
\* three projectiles, owned by the enemy and of damage 15, and takes nothing from the
\* player's health.
C19_SlamOrThreeShards ==
    [][BossFights /\ now - LastAttack > StatedCooldown =>
          IF Dist(playerPos, boss.pos) < 5
          THEN /\ health' = health - 20
               /\ projectiles' = projectiles
          ELSE /\ health' = health
               /\ Len(projectiles') = Len(projectiles) + 3
               /\ SubSeq(projectiles', 1, Len(projectiles)) = projectiles
               /\ \A k \in (Len(projectiles) + 1)..Len(projectiles') :
                     /\ projectiles'[k].isEnemyProjectile
                     /\ ~projectiles'[k].isPlayerProjectile
                     /\ projectiles'[k].damage = 15]_vars

\* C19 happened: the boss has just attacked the player standing closer than 5, the
\* attack threw nothing, and the player is alive with less than full health.
C19_Witness ==
    /\ currentLevel = 3
    /\ pc \in {"projectiles", "collectibles"}
    /\ boss.present
    /\ boss.lastAttack = now
    /\ Dist(playerPos, boss.pos) < 5
    /\ \A k \in 1..Len(projectiles) : projectiles[k].spawnTime # now
    /\ health > 0
    /\ health < maxHealth

\* C20: the health of every enemy of the registry is within [0, maxHealth] of that
\* enemy and the health of the boss is within [0, bossMaxHealth].
C20_TargetHealthInRange ==
    /\ \A k \in 1..Len(enemies) :
          0 <= enemies[k].health /\ enemies[k].health <= enemies[k].maxHealth
    /\ 0 <= bossHealth
    /\ bossHealth <= bossMaxHealth

\* The player jumps in this tick.
JumpNow == keys.Space /\ playerOnGround

\* The vertical velocity and the height of the player after the integration of this
\* tick, before any collision is resolved.
VyIn ==
    (IF JumpNow THEN jumpForce * VScale ELSE playerVelocityY)
        - (gravity * VScale * delta') \div DeltaScale
YIn == playerY + VyIn * delta'

\* No platform but the ground lies under or over the sample point: the point is
\* outside the footprint of every box and outside the radius of the arena.
NoPlatformAt(place) ==
    LET x == Places(currentLevel)[place][1]
        z == Places(currentLevel)[place][2]
    IN  \A k \in 1..Len(platforms) :
           CASE platforms[k].kind = "ground" -> TRUE
             [] platforms[k].kind = "arena" ->
                  x * x + z * z >= (25 * XZScale) * (25 * XZScale)
             [] OTHER ->
                  \/ x <= platforms[k].x - platforms[k].halfWidth
                  \/ x >= platforms[k].x + platforms[k].halfWidth
                  \/ z <= platforms[k].z - platforms[k].halfDepth
                  \/ z >= platforms[k].z + platforms[k].halfDepth

\* C21: where no platform is under the player, every player update ends with the
\* player at height 1 or above, and an update whose integration put the player below
\* 1 ends with the player at height 1, vertical velocity 0 and grounded.
C21_FloorClamp ==
    [][UpdatePlayer /\ NoPlatformAt(playerPlace') =>
          /\ playerY' >= 1 * YScale
          /\ YIn < 1 * YScale =>
                /\ playerY' = 1 * YScale
                /\ playerVelocityY' = 0
                /\ playerOnGround']_vars

\* C21 happened: away from every platform a tick of the full delta, whose gravity took
\* the player below the floor, has ended with the player at height 1, at rest and
\* grounded.
C21_Witness ==
    /\ NoPlatformAt(playerPlace)
    /\ delta = MaxDelta
    /\ playerY = 1 * YScale
    /\ playerVelocityY = 0
    /\ playerOnGround

\* The player is at rest on the ground and no key is held.
AtRest ==
    /\ playerY = 1 * YScale
    /\ playerVelocityY = 0
    /\ ~keys.Space
    /\ ~keys.KeyW

\* The sample point is inside the footprint of the platform: strictly within its
\* half-width and half-depth, or strictly within the radius of the arena.
Inside(platform, place) ==
    LET x == Places(currentLevel)[place][1]
        z == Places(currentLevel)[place][2]
    IN  CASE platform.kind = "ground" -> FALSE
          [] platform.kind = "arena" -> x * x + z * z < (25 * XZScale) * (25 * XZScale)
          [] OTHER -> /\ platform.x - platform.halfWidth < x
                      /\ x < platform.x + platform.halfWidth
                      /\ platform.z - platform.halfDepth < z
                      /\ z < platform.z + platform.halfDepth

\* The height at which a platform puts the player it lands: 1 above its top.
LandingY(platform) ==
    IF platform.kind = "arena" THEN 2 * YScale
    ELSE platform.y + platform.height \div 2 + 1 * YScale

\* The landing test of the code for platforms[k] in this tick: the player inside the
\* footprint, moving down, and the height strictly between top - 0.5 and top + 1 (for
\* the arena strictly between 0 and 2).
Lands(k) ==
    /\ Inside(platforms[k], playerPlace')
    /\ VyIn < 0
    /\ YIn < LandingY(platforms[k])
    /\ IF platforms[k].kind = "arena" THEN YIn > 0
       ELSE 2 * YIn > 2 * LandingY(platforms[k]) - 3 * YScale

\* C22 as stated: a player at rest on the ground with no key held is at height 1, at
\* rest and grounded at the end of the tick, on every level and at every place.
C22_RestStays ==
    [][UpdatePlayer /\ AtRest =>
          /\ playerY' = 1 * YScale
          /\ playerVelocityY' = 0
          /\ playerOnGround']_vars

\* C22, amended: that holds for a tick of positive delta in which no platform lands
\* the player; a tick of delta 0 leaves height and velocity and ends not grounded, and
\* a platform whose landing test holds lifts the player onto it.
C22_RestStaysOffPlatforms ==
    [][UpdatePlayer /\ AtRest =>
          /\ playerVelocityY' = 0
          /\ IF delta' = 0 THEN playerY' = 1 * YScale /\ ~playerOnGround'
             ELSE IF \E k \in 1..Len(platforms) : Lands(k)
                  THEN playerY' > 1 * YScale /\ playerOnGround'
                  ELSE playerY' = 1 * YScale /\ playerOnGround']_vars

\* C22 happened: under the first platform of level 2 the player, with no key held, is
\* at height 1, at rest and grounded after a tick of the full delta.
C22_Witness ==
    /\ currentLevel = 2
    /\ playerPlace = 2
    /\ AtRest
    /\ playerOnGround
    /\ delta = MaxDelta

\* The platforms whose landing test holds in this tick.
Landing == {k \in 1..Len(platforms) : Lands(k)}

\* C23: when the landing test of one or more platforms holds in a tick, the tick ends
\* with the player landed on the one registered first among them: at its landing
\* height, with vertical velocity 0 and grounded, whatever the later ones would give.
C23_FirstRegisteredWins ==
    [][UpdatePlayer /\ Landing # {} =>
          LET first == CHOOSE k \in Landing : \A h \in Landing : k <= h
          IN  /\ playerY' = LandingY(platforms[first])
              /\ playerVelocityY' = 0
              /\ playerOnGround']_vars

\* C23 happened: in level 2, where the third ice platform (top 4.25) lies on the temple
\* base (top 4, registered before it), the player has come down on the base, at
\* height 5, and not on the ice platform.
C23_Witness ==
    /\ currentLevel = 2
    /\ playerPlace = 5
    /\ playerY = 5 * YScale
    /\ playerVelocityY = 0
    /\ playerOnGround
    /\ delta > 0

\* The landing test as C24 states it, for platforms[k] in this tick: for a box the
\* player inside the footprint, moving down, and top - 0.5 <= y < top + 1; for the
\* arena the test of the code.
StatedLands(k) ==
    IF platforms[k].kind = "box"
    THEN /\ Inside(platforms[k], playerPlace')
         /\ VyIn < 0
         /\ YIn < LandingY(platforms[k])
         /\ 2 * YIn >= 2 * LandingY(platforms[k]) - 3 * YScale
    ELSE Lands(k)

\* C24: a box platform lands the player exactly when the player is inside its
\* footprint, moves down and has top - 0.5 <= y < top + 1: the first platform for which
\* this holds puts the player at top + 1, at rest and grounded, and when it holds for
\* no platform the tick ends at the integrated height, or on the floor below height 1.
C24_BoxLandingBand ==
    [][UpdatePlayer =>
          LET stated == {k \in 1..Len(platforms) : StatedLands(k)}
          IN  IF stated # {}
              THEN /\ playerY' = LandingY(platforms[CHOOSE k \in stated : \A h \in stated : k <= h])
                   /\ playerVelocityY' = 0
                   /\ playerOnGround'
              ELSE playerY' = IF YIn < 1 * YScale THEN 1 * YScale ELSE YIn]_vars

\* The change of the vertical velocity by the gravity of this tick.
Fall == (gravity * VScale * delta') \div DeltaScale

\* C25: a player update starts from the jump impulse only when the jump key is held
\* and the player was grounded at the end of the update before: then it ends with the
\* impulse less this tick's gravity, airborne. In every other update, the updates of
\* an airborne player with the key held among them, the velocity only falls by the
\* gravity or is set to 0 by a landing or by the floor.
C25_JumpOnlyFromGround ==
    [][UpdatePlayer =>
          IF keys.Space /\ playerOnGround
          THEN /\ playerVelocityY' = jumpForce * VScale - Fall
               /\ ~playerOnGround'
          ELSE \/ playerVelocityY' = playerVelocityY - Fall /\ ~playerOnGround'
               \/ playerVelocityY' = 0 /\ playerOnGround']_vars

\* C25 happened: the player is in the air, rising from a jump, with the jump key
\* still held, two updates after the jump.
C25_Witness ==
    /\ keys.Space
    /\ ~playerOnGround
    /\ delta = MaxDelta
    /\ playerVelocityY = jumpForce * VScale - 2 * ((gravity * VScale * MaxDelta) \div DeltaScale)
    /\ playerY > 1 * YScale

\* What createLevel1, createLevel2 and createLevel3 put into empty registries.
LevelDefines(levelNum) ==
    CASE levelNum = 1 -> createLevel1(Constructed)
      [] levelNum = 2 -> createLevel2(Constructed)
      [] OTHER -> createLevel3(Constructed)

\* C26: every step that loads a level (startGame, nextLevel below the last level,
\* restartGame) ends with the gate closed, the puzzle unsolved, no projectile, and the
\* enemies, boss, collectibles, interactables and exit gate of the level it loaded,
\* nothing of the level before.
C26_LoadStartsClean ==
    [][LevelLoad =>
          /\ ~gateOpen'
          /\ ~puzzleSolved'
          /\ projectiles' = <<>>
          /\ enemies' = LevelDefines(currentLevel').enemies
          /\ boss' = LevelDefines(currentLevel').boss
          /\ collectibles' = LevelDefines(currentLevel').collectibles
          /\ interactables' = LevelDefines(currentLevel').interactables
          /\ exitGate' = LevelDefines(currentLevel').exitGate]_vars

\* C26 happened: level 3 has just been loaded from a level 2 whose puzzle was solved
\* and whose gate was open (the transition callback of that gate is still pending):
\* the boss is untouched, the flags are down and nothing of level 2 is left.
C26_Witness ==
    /\ currentLevel = 3
    /\ state = PLAYING
    /\ now > LoadTime + puzzleTimeout + 4
    /\ timers # <<>>
    /\ boss = LevelDefines(3).boss
    /\ bossHealth = bossMaxHealth
    /\ collectibles = LevelDefines(3).collectibles
    /\ ~gateOpen
    /\ ~puzzleSolved
    /\ projectiles = <<>>
    /\ exitGate = NoPos

\* The player is within pickup distance (1.5) of collectibles[k].
InPickupRange(k) == 2 * Dist(playerPos, collectibles[k].pos) < 3

\* A key is picked up in this step.
KeyPicked == \E k \in 1..Len(collectibles) : collectibles[k].type = "key" /\ InPickupRange(k)

Occupied(inv) == {k \in 1..Len(inv) : inv[k] # Null}

\* C27: the inventory has 3 slots before and after every step; a pickup of a key
\* fills the first free slot and no other, a pickup of a key with no free slot leaves
\* the inventory as it is, and in both cases the key leaves the registry.
C27_InventoryThreeSlots ==
    [][/\ Len(inventory) = 3 /\ Len(inventory') = 3
       /\ Cardinality(Occupied(inventory')) <= 3
       /\ PickUp /\ KeyPicked =>
             /\ \A k \in 1..Len(collectibles') : collectibles'[k].type # "key"
             /\ IF Occupied(inventory) = 1..3
                THEN inventory' = inventory
                ELSE \E i \in 1..3 :
                        /\ inventory[i] = Null
                        /\ \A j \in 1..(i - 1) : inventory[j] # Null
                        /\ inventory' = [inventory EXCEPT ![i] = "key"]]_vars

\* C27 happened: the pickup check ran with the player at the key and ended with every
\* slot occupied and the key gone from the registry.
C27_Witness ==
    /\ pc = "collected"
    /\ Dist(playerPos, 2) <= 1
    /\ inventory = <<"key", "key", "key">>
    /\ \A k \in 1..Len(collectibles) : collectibles[k].type # "key"

\* The collectibles of the given type that the player is within pickup distance of.
Picked(type) == {k \in 1..Len(collectibles) : collectibles[k].type = type /\ InPickupRange(k)}

OutOfRange(collectible) == 2 * Dist(playerPos, collectible.pos) >= 3

\* C28: the pickup check of a tick removes from the registry exactly the collectibles
\* within 1.5 of the player and applies the effect of each of them once: 25 health
\* up to maxHealth, 10 rounds up to maxAmmo, a key into the inventory; the others stay
\* and have no effect.  Outside the pickup check health and ammunition rise only when
\* startGame or restartGame resets the player, so nothing is applied a second time.
C28_PickupOnceInRange ==
    [][/\ UpdateCollectibles =>
             /\ collectibles' = SelectSeq(collectibles, OutOfRange)
             /\ health' = Min(health + 25 * Cardinality(Picked("health")), maxHealth)
             /\ ammo' = Min(ammo + 10 * Cardinality(Picked("ammo")), maxAmmo)
             /\ Cardinality(Occupied(inventory')) =
                   Min(Cardinality(Occupied(inventory)) + Cardinality(Picked("key")), 3)
       /\ health' > health => (UpdateCollectibles /\ Picked("health") # {}) \/ StartButton \/ RestartButton
       /\ ammo' > ammo => (UpdateCollectibles /\ Picked("ammo") # {}) \/ RestartButton]_vars

\* C28 happened: in level 2 the pickup check of this frame has run with the player at
\* the ammunition, which is gone from the registry, and the player, who came with one
\* round, has ten more or has spent some of them.
C28_Witness ==
    /\ currentLevel = 2
    /\ pc = "completion"
    /\ Dist(playerPos, 3) <= 1
    /\ collectibles = <<>>
    /\ ammo <= 11
    /\ ammo >= 9

\* The enemy a as this tick left it has attacked: its attack or shot time is new.
Attacked(e, a) == a.lastAttack # e.lastAttack \/ a.lastShot # e.lastShot

\* C29: updateEnemies leaves the live enemies in the registry, in their order, and
\* treats each by its distance d to the player in this tick alone: from the aggro
\* range on the enemy is left as it was; between the attack range and the aggro range
\* it moves towards the player by its speed and does not attack; inside the attack
\* range it stays where it is, and only there does an attack happen.  The player is
\* hurt or shot at only in a tick in which a live enemy is inside its attack range.
C29_ActsByDistance ==
    [][EnemiesTick =>
          LET live == Alive(enemies)
          IN  /\ Len(enemies') = Len(live)
              /\ \A j \in 1..Len(live) :
                    LET e == live[j]
                        a == enemies'[j]
                        d == Dist(playerPos, e.pos)
                    IN  /\ d >= e.aggroRange => a = e
                        /\ e.attackRange < d /\ d < e.aggroRange =>
                              /\ a.pos = e.pos + Direction(playerPos, e.pos) * e.speed * delta'
                              /\ Dist(playerPos, a.pos) < d
                              /\ ~Attacked(e, a)
                        /\ d < e.attackRange => a.pos = e.pos
                        /\ Attacked(e, a) => d < e.attackRange
              /\ health' # health \/ projectiles' # projectiles =>
                    \E j \in 1..Len(live) : Dist(playerPos, live[j].pos) < live[j].attackRange]_vars

\* C29 happened: after a tick one wolf stands untouched where it was placed, at the
\* aggro range from the player, and the other, inside its attack range, has bitten in
\* this tick.
C29_Witness ==
    /\ now > LoadTime
    /\ Len(enemies) = 2
    /\ enemies[1] = createSnowWolf(15)
    /\ enemies[2].type = "wolf"
    /\ Dist(playerPos, enemies[2].pos) < 2
    /\ enemies[2].lastAttack = now
    /\ health < maxHealth

\* The live enemies of the given type that attack in this pass of updateEnemies: the
\* j-th live enemy before is the j-th enemy after, with a new attack or shot time.
Attackers(type) ==
    {j \in 1..Len(Alive(enemies)) :
        /\ j <= Len(enemies')
        /\ Alive(enemies)[j].type = type
        /\ Attacked(Alive(enemies)[j], enemies'[j])}

\* The enemy-owned projectiles.
EnemyOwned(projs) == SelectSeq(projs, LAMBDA proj : proj.isEnemyProjectile)

\* C30: a wolf that bites now has not bitten before or bit more than 1 s ago, and a
\* spirit that shoots now shot more than 2 s ago.  The pass of updateEnemies takes
\* from the player's health the damage of every wolf that bites in it and nothing
\* else, and adds to the projectiles one enemy-owned projectile for every spirit
\* that shoots in it and nothing else.
C30_AttackCooldowns ==
    [][UpdateEnemies =>
          /\ \A j \in Attackers("wolf") :
                LET e == Alive(enemies)[j]
                IN  /\ enemies'[j].lastAttack = now
                    /\ e.lastAttack = Undefined \/ now - e.lastAttack > 1 * TimeScale
          /\ \A j \in Attackers("spirit") :
                /\ enemies'[j].lastShot = now
                /\ now - Alive(enemies)[j].lastShot > 2 * TimeScale
          /\ health' = health - createSnowWolf(0).damage * Cardinality(Attackers("wolf"))
          /\ Len(projectiles') = Len(projectiles) + Cardinality(Attackers("spirit"))
          /\ Len(EnemyOwned(projectiles')) =
                Len(EnemyOwned(projectiles)) + Cardinality(Attackers("spirit"))
          /\ SubSeq(projectiles', 1, Len(projectiles)) = projectiles]_vars

\* C30 happened: in level 1 a wolf has bitten in this frame and the player has lost
\* 30 health or more: with two wolves in the level one of them has bitten twice.
C30_Witness ==
    /\ currentLevel = 1
    /\ pc = "boss"
    /\ health <= maxHealth - 30
    /\ \E k \in 1..Len(enemies) : enemies[k].type = "wolf" /\ enemies[k].lastAttack = now

\* The health of the enemies, in registry order.
EnemyHealth(es) == [j \in 1..Len(es) |-> es[j].health]

\* In this pass of the projectile loop the projectile, moved, is within 1 of the player.
ReachesPlayer == pc = "projectiles" /\ Dist(Moved.pos, playerPos) < 1

\* The owner tags in one pass of the projectile loop: a projectile of an enemy leaves
\* the health of the enemies and of the boss alone, a projectile of the player leaves
\* the health of the player alone.
OwnerTagRespected ==
    pc = "projectiles" =>
       /\ projectiles[idx].isEnemyProjectile =>
             EnemyHealth(enemies') = EnemyHealth(enemies) /\ bossHealth' = bossHealth
       /\ projectiles[idx].isPlayerProjectile => health' = health
       /\ health' # health =>
             /\ projectiles[idx].isEnemyProjectile
             /\ ReachesPlayer
             /\ health' = health - projectiles[idx].damage

\* C31 as stated: the owner tags are respected, and every projectile of an enemy that
\* comes within 1 of the player in its pass is removed in that pass and takes its
\* damage from the health of the player.
C31_OwnerTagAndHit ==
    [][/\ OwnerTagRespected
       /\ ReachesPlayer /\ projectiles[idx].isEnemyProjectile =>
             /\ projectiles' = Splice([projectiles EXCEPT ![idx] = Moved], idx)
             /\ health' = health - projectiles[idx].damage]_vars

\* C31, amended: the owner tags are respected; a projectile of an enemy that comes
\* within 1 of the player in its pass and is not older than its lifetime is removed in
\* that pass and takes its damage from the health of the player, once; one that is
\* older than its lifetime is removed in that pass without any damage.
C31_OwnerTagAndLiveHit ==
    [][/\ OwnerTagRespected
       /\ ReachesPlayer /\ projectiles[idx].isEnemyProjectile =>
             /\ projectiles' = Splice([projectiles EXCEPT ![idx] = Moved], idx)
             /\ health' = IF Expired(Moved) THEN health
                          ELSE health - projectiles[idx].damage]_vars

\* C31 happened: the loop has passed both projectiles, the bolt of the spirit has hit
\* the player, who has lost its damage once, and has left the list; the spirit is
\* unhurt.
C31_Witness ==
    /\ pc = "collectibles"
    /\ health = maxHealth - createIceSpirit(7).damage
    /\ \A k \in 1..Len(projectiles) : projectiles[k].isPlayerProjectile
    /\ enemies = <<createIceSpirit(7)>>

\* C32: in every reachable state the boss reference is non-null only in level 3.
C32_BossOnlyInLevel3 == boss.present => currentLevel = 3

\* C33: once the gate of the level is open, an activation of the gate interactable
\* changes nothing: no further transition callback is scheduled.
C33_OpenGateIdempotent ==
    [][(\E levelNum \in 1..maxLevels : GateActivated(levelNum)) /\ gateOpen =>
          UNCHANGED vars]_vars

\* C34: the state becomes VICTORY only in the boss update of a frame of level 3 that
\* finds the boss with no health left.
C34_VictoryOnlyByBossDeath ==
    [][state # VICTORY /\ state' = VICTORY =>
          /\ pc = "boss"
          /\ currentLevel = 3
          /\ boss.present
          /\ bossHealth <= 0]_vars

\* C35: from GAME_OVER no step but restartGame changes the game state or the level:
\* the state stays GAME_OVER and no level is loaded.
C35_GameOverAbsorbing ==
    [][state = GAME_OVER /\ ~RestartButton =>
          /\ state' = GAME_OVER
          /\ currentLevel' = currentLevel
          /\ ~LevelLoad]_vars

\* C36: restartGame leaves the state PLAYING with level 1 loaded, full health, full
\* ammunition and an empty inventory, and the frame loop running, so that the ticks
\* of the simulation go on.
C36_RestartResumes ==
    [][RestartButton =>
          /\ state' = PLAYING
          /\ currentLevel' = 1
          /\ health' = maxHealth
          /\ ammo' = maxAmmo
          /\ inventory' = <<Null, Null, Null>>
          /\ enemies' = LevelDefines(1).enemies
          /\ loopRunning']_vars

\* C37: from the moment the health of the player is <= 0, no step but restartGame
\* changes health, ammunition, inventory, the health of an enemy or of the boss, or
\* the level.
C37_DeadPlayerFrozen ==
    [][health <= 0 /\ ~RestartButton =>
          /\ UNCHANGED <<health, ammo, inventory, bossHealth, currentLevel>>
          /\ Len(enemies') = Len(enemies) => EnemyHealth(enemies') = EnemyHealth(enemies)]_vars

\* The step runs a pending transition callback (nextLevel) of a gate.
GateCallback ==
    /\ pc = "idle"
    /\ nextDue(timers, now) # 0
    /\ timers[nextDue(timers, now)].callback = "nextLevel"
    /\ Len(timers') < Len(timers)

\* C38: in the PUZZLE state a frame, a click, a key and every action of the puzzle
\* (solving, closing, its close callback) leave player position, health, ammunition,
\* inventory, enemies, boss, projectiles, collectibles, the gate and the level as
\* they are, and puzzleSolved changes from false to true only.  The frames of the
\* PUZZLE state run no update: pc stays idle.
C38_PuzzleSuspends ==
    [][state = PUZZLE /\ ~GateCallback =>
          /\ UNCHANGED <<playerPos, health, ammo, inventory, enemies, boss, bossHealth,
                         projectiles, collectibles, interactables, exitGate, gateOpen,
                         currentLevel, lastShootTime>>
          /\ puzzleSolved => puzzleSolved'
          /\ pc' = "idle"
          /\ state' \in {PUZZLE, PLAYING}]_vars

\* C38 happened: the puzzle is open and was solved a clock step ago (the callback that
\* closes it is due in one more step): a frame has run in the PUZZLE state, and the
\* spirit of the level stands where the level put it.
C38_Witness ==
    /\ state = PUZZLE
    /\ puzzleSolved
    /\ pc = "idle"
    /\ \E k \in 1..Len(timers) :
          timers[k].callback = "closePuzzle" /\ timers[k].due = now + puzzleTimeout - 1
    /\ enemies = LevelDefines(2).enemies

\* The interactables the player is in reach of: distance < radius.
InReach ==
    {k \in 1..Len(interactables) : Dist(playerPos, interactables[k].pos) < interactables[k].radius}

\* C39: the interact key runs the action of the first registered interactable in
\* reach and of no other.  With none in reach nothing changes.  When the first is the
\* altar the puzzle opens, or nothing changes if it is solved already, and the gate,
\* in reach or not, is not activated; when the first is the gate the puzzle is not
\* opened.
C39_FirstInReachActs ==
    [][KeyE =>
          IF InReach = {} THEN UNCHANGED vars
          ELSE LET first == CHOOSE k \in InReach : \A h \in InReach : k <= h
               IN  IF interactables[first].type = "puzzle"
                   THEN /\ UNCHANGED <<gateOpen, timers, inventory, currentLevel>>
                        /\ IF puzzleSolved THEN UNCHANGED vars
                           ELSE state' = PUZZLE /\ puzzleVisible' /\ ~pointerLocked'
                   ELSE /\ UNCHANGED <<state, puzzleVisible, pointerLocked, puzzleSolved>>
                        /\ Len(timers') <= Len(timers) + 1]_vars

\* C39 happened: in level 2 the player stands in reach of both the altar and the
\* gate, and the interact key has opened the puzzle of the altar, registered first;
\* the gate is closed and no callback is pending.
C39_Witness ==
    /\ currentLevel = 2
    /\ state = PUZZLE
    /\ Cardinality(InReach) = 2
    /\ ~gateOpen
    /\ timers = <<>>

====
